---- MODULE Spec2Model ----
(***************************************************************************)
(* A model of arch-mcp-server: the document scanner (src/src/models.rs),   *)
(* the startup scan (src/src/main.rs) and the query handlers of the        *)
(* document server (src/src/server.rs).                                    *)
(*                                                                         *)
(* Strings are sequences of one-character strings, so that split, trim,    *)
(* prefix stripping and the byte-wise order of the index keys are          *)
(* computed the way the Rust code computes them.                           *)
(***************************************************************************)
EXTENDS Integers, Sequences, FiniteSets, TLC

VARIABLES
    fs,          \* the filesystem snapshot (see below)
    config,      \* Some(configuration) when main runs the scan, None for direct scanner calls
    calls,       \* the scan calls to make, in order
    ci, ti,      \* the call and the target being scanned
    stack,       \* the directories being listed: frames [dir, todo], innermost last
    resources,   \* the index under construction: BTreeMap<DocumentKey, ResourceInfo>
    log,         \* the warnings logged
    trace,       \* history: one record per target started
    lastIns,     \* history: the entry inserted last for each URI
    phase,       \* "scan", "scanned", "serve"
    run,         \* 1 for the first scan, 2 for a repeated one
    firstIndex,  \* history: the index the first scan produced
    published,   \* history: the index handed to the service factory
    sessions,    \* per session: Some(DocumentServer) once the factory made it
    resp         \* the last response sent

vars == <<fs, config, calls, ci, ti, stack, resources, log, trace, lastIns, phase,
          run, firstIndex, published, sessions, resp>>

-----------------------------------------------------------------------------
(* Characters and strings *)

\* The characters that occur, in ascending byte order.
Alphabet == <<" ","(",")",",","-",".","/","0","1","2","3","4","5","6","7","8","9",":","A","B","C","D","E","F","G","H","I","J","K","L","M","N","O","P","Q","R","S","T","U","V","W","X","Y","Z","_","a","b","c","d","e","f","g","h","i","j","k","l","m","n","o","p","q","r","s","t","u","v","w","x","y","z","|">>

CharSet == {Alphabet[i] : i \in DOMAIN Alphabet}

\* The rank of a character in byte order.
CharCode == [c \in CharSet |-> CHOOSE i \in DOMAIN Alphabet : Alphabet[i] = c]

IsUpper(c) == CharCode[c] >= CharCode["A"] /\ CharCode[c] <= CharCode["Z"]

\* char::to_ascii_lowercase
LowerChar(c) == IF IsUpper(c) THEN Alphabet[CharCode[c] - CharCode["A"] + CharCode["a"]] ELSE c

\* str::to_ascii_lowercase
ToAsciiLowercase(s) == [i \in DOMAIN s |-> LowerChar(s[i])]

\* char::is_whitespace, over the characters of Alphabet
IsWhitespace(c) == c = " "

\* Option<T>
None == [some |-> FALSE]

Some(x) == [some |-> TRUE, v |-> x]

\* value bound to the parameter of Body: let value = ...; Body
With(value, Body(_)) == Body(value)

Min(a, b) == IF a <= b THEN a ELSE b

\* <str as Ord>::cmp: byte-wise lexicographic order; -1, 0 or 1.
RECURSIVE StrCmp(_, _)
StrCmp(a, b) ==
    IF a = <<>> THEN (IF b = <<>> THEN 0 ELSE -1)
    ELSE IF b = <<>> THEN 1
    ELSE IF Head(a) = Head(b) THEN StrCmp(Tail(a), Tail(b))
    ELSE IF CharCode[Head(a)] < CharCode[Head(b)] THEN -1 ELSE 1

StrLess(a, b) == StrCmp(a, b) = -1

\* str::starts_with
StartsWith(s, p) == Len(p) <= Len(s) /\ SubSeq(s, 1, Len(p)) = p

\* str::ends_with
EndsWith(s, p) == Len(p) <= Len(s) /\ SubSeq(s, Len(s) - Len(p) + 1, Len(s)) = p

\* str::contains
Contains(s, p) == \E i \in 1..(Len(s) - Len(p) + 1) : SubSeq(s, i, i + Len(p) - 1) = p

\* str::strip_prefix
StripPrefix(s, p) == IF StartsWith(s, p) THEN Some(SubSeq(s, Len(p) + 1, Len(s))) ELSE None

\* The positions of the character ch in s.
Positions(s, ch) == {i \in DOMAIN s : s[i] = ch}

SetMin(S) == CHOOSE x \in S : \A y \in S : x <= y

SetMax(S) == CHOOSE x \in S : \A y \in S : x >= y

\* str::split(char), collected: always at least one token.
RECURSIVE Split(_, _)
Split(s, ch) ==
    IF Positions(s, ch) = {} THEN <<s>>
    ELSE LET i == SetMin(Positions(s, ch))
         IN  <<SubSeq(s, 1, i - 1)>> \o Split(SubSeq(s, i + 1, Len(s)), ch)

\* str::trim_start / trim_end / trim
RECURSIVE TrimStart(_)
TrimStart(s) == IF s # <<>> /\ IsWhitespace(Head(s)) THEN TrimStart(Tail(s)) ELSE s

RECURSIVE TrimEnd(_)
TrimEnd(s) == IF s # <<>> /\ IsWhitespace(s[Len(s)]) THEN TrimEnd(SubSeq(s, 1, Len(s) - 1)) ELSE s

Trim(s) == TrimEnd(TrimStart(s))

\* str::trim_start_matches(char)
RECURSIVE TrimStartMatchesChar(_, _)
TrimStartMatchesChar(s, ch) ==
    IF s # <<>> /\ Head(s) = ch THEN TrimStartMatchesChar(Tail(s), ch) ELSE s

\* str::trim_end_matches(char)
RECURSIVE TrimEndMatchesChar(_, _)
TrimEndMatchesChar(s, ch) ==
    IF s # <<>> /\ s[Len(s)] = ch THEN TrimEndMatchesChar(SubSeq(s, 1, Len(s) - 1), ch) ELSE s

\* str::trim_matches(char)
TrimMatchesChar(s, ch) == TrimEndMatchesChar(TrimStartMatchesChar(s, ch), ch)

\* str::trim_end_matches(&str): the suffix is removed as often as it occurs.
RECURSIVE TrimEndMatches(_, _)
TrimEndMatches(s, p) ==
    IF p # <<>> /\ EndsWith(s, p) THEN TrimEndMatches(SubSeq(s, 1, Len(s) - Len(p)), p) ELSE s

\* [String]::join(sep)
RECURSIVE Join(_, _)
Join(parts, sep) ==
    IF parts = <<>> THEN <<>>
    ELSE IF Len(parts) = 1 THEN parts[1]
    ELSE parts[1] \o sep \o Join(Tail(parts), sep)

\* str::replace(char, char)
ReplaceChar(s, from, to) == [i \in DOMAIN s |-> IF s[i] = from THEN to ELSE s[i]]

-----------------------------------------------------------------------------
(* String literals of the source *)

s_content == <<"c","o","n","t","e","n","t">>

s_docs == <<"d","o","c","s">>

s_architecture == <<"a","r","c","h","i","t","e","c","t","u","r","e">>

s_c4 == <<"c","4">>

s_services == <<"s","e","r","v","i","c","e","s">>

s_erd == <<"e","r","d">>

s_adr == <<"a","d","r">>

s_openapi_spec == <<"o","p","e","n","a","p","i","-","s","p","e","c">>

s_endpoints == <<"e","n","d","p","o","i","n","t","s">>

s_openapi == <<"o","p","e","n","a","p","i">>

s_agreements == <<"a","g","r","e","e","m","e","n","t","s">>

s_guides == <<"g","u","i","d","e","s">>

s_c1 == <<"c","1">>

s_c2 == <<"c","2">>

s_c3 == <<"c","3">>

s_mdx == <<"m","d","x">>

s_md == <<"m","d">>

s_txt == <<"t","x","t">>

s_yaml == <<"y","a","m","l">>

s_yml == <<"y","m","l">>

s_rst == <<"r","s","t">>

s_c1_mdx == <<"c","1",".","m","d","x">>

s_c2_mdx == <<"c","2",".","m","d","x">>

s_c3_mdx == <<"c","3",".","m","d","x">>

s_unknown == <<"u","n","k","n","o","w","n">>

s_backend == <<"b","a","c","k","e","n","d">>

s_frontend == <<"f","r","o","n","t","e","n","d">>

s_quality_assurance == <<"q","u","a","l","i","t","y","-","a","s","s","u","r","a","n","c","e">>

s_none == <<"n","o","n","e">>

s_dot_mdx == <<".","m","d","x">>

s_dot_yaml == <<".","y","a","m","l">>

s_adr_prefix == <<"A","D","R","-">>

s_docs_scheme == <<"d","o","c","s",":","/","/">>

s_dotdot == <<".",".">>

s_dot == <<".">>

s_slash == <<"/">>

s_empty == <<>>

s_text_markdown == <<"t","e","x","t","/","m","a","r","k","d","o","w","n">>

s_application_x_yaml == <<"a","p","p","l","i","c","a","t","i","o","n","/","x","-","y","a","m","l">>

s_text_x_rst == <<"t","e","x","t","/","x","-","r","s","t">>

s_text_plain == <<"t","e","x","t","/","p","l","a","i","n">>

\* format!/concat of string pieces
RECURSIVE Concat(_)
Concat(parts) == IF parts = <<>> THEN <<>> ELSE Head(parts) \o Concat(Tail(parts))

\* Option::unwrap_or
UnwrapOr(o, d) == IF o.some THEN o.v ELSE d

-----------------------------------------------------------------------------
(* Unsigned machine integers.  A value is four 16-bit limbs, least          *)
(* significant first (64 bits); a u32 has its two upper limbs zero.         *)

Base == 256 * 256

\* The machine integer of a natural number below 2^31.
Wide(n) == <<n % Base, (n \div Base) % Base, 0, 0>>

\* The natural number of a machine integer below 2^31.
ToNat(a) == a[1] + a[2] * Base

FitsU32(a) == a[3] = 0 /\ a[4] = 0

\* u32::MAX
U32Max == <<Base - 1, Base - 1, 0, 0>>

\* a as u32: the low 32 bits
WrapU32(a) == <<a[1], a[2], 0, 0>>

\* -1, 0 or 1
WideCmp(a, b) ==
    LET d == {i \in 1..4 : a[i] # b[i]}
    IN  IF d = {} THEN 0 ELSE IF a[SetMax(d)] < b[SetMax(d)] THEN -1 ELSE 1

\* a + b in 64 bits: [v, overflow]
WideAdd(a, b) ==
    LET c1 == (a[1] + b[1]) \div Base
        c2 == (a[2] + b[2] + c1) \div Base
        c3 == (a[3] + b[3] + c2) \div Base
        c4 == (a[4] + b[4] + c3) \div Base
    IN  [v |-> <<(a[1] + b[1]) % Base, (a[2] + b[2] + c1) % Base,
                 (a[3] + b[3] + c2) % Base, (a[4] + b[4] + c3) % Base>>,
         overflow |-> c4 > 0]

\* a - 1, for a > 0
WideDec(a) ==
    LET i == SetMin({k \in 1..4 : a[k] # 0})
    IN  [k \in 1..4 |-> IF k < i THEN Base - 1 ELSE IF k = i THEN a[k] - 1 ELSE a[k]]

\* a * k for a natural k below 2^15: [v, overflow]
WideMulSmall(a, k) ==
    LET p1 == a[1] * k
        p2 == a[2] * k + p1 \div Base
        p3 == a[3] * k + p2 \div Base
        p4 == a[4] * k + p3 \div Base
    IN  [v |-> <<p1 % Base, p2 % Base, p3 % Base, p4 % Base>>, overflow |-> p4 \div Base > 0]

\* a / k (integer division) for a natural k in 1..2^15
WideDivSmall(a, k) ==
    LET r4 == a[4] % k
        n3 == r4 * Base + a[3]
        n2 == (n3 % k) * Base + a[2]
        n1 == (n2 % k) * Base + a[1]
    IN  <<n1 \div k, n2 \div k, n3 \div k, a[4] \div k>>

-----------------------------------------------------------------------------
(* std::path::Path, on texts *)

\* rsplit_file_at_dot of the standard library, behind Path::extension and
\* Path::file_stem: (before, after) of the last dot of a file name.
RSplitFileAtDot(name) ==
    IF name = s_dotdot THEN [before |-> Some(name), after |-> None]
    ELSE IF Positions(name, ".") = {} THEN [before |-> None, after |-> Some(name)]
    ELSE LET i == SetMax(Positions(name, "."))
             before == SubSeq(name, 1, i - 1)
             after == SubSeq(name, i + 1, Len(name))
         IN  IF before = <<>> THEN [before |-> Some(name), after |-> None]
             ELSE [before |-> Some(before), after |-> Some(after)]

\* Path::extension: before.and(after)
Extension(name) ==
    With(RSplitFileAtDot(name), LAMBDA r : IF r.before.some THEN r.after ELSE None)

\* Path::file_stem: before.or(after)
FileStem(name) ==
    With(RSplitFileAtDot(name), LAMBDA r : IF r.before.some THEN r.before ELSE r.after)

\* OsStr::eq_ignore_ascii_case
EqIgnoreAsciiCase(a, b) == ToAsciiLowercase(a) = ToAsciiLowercase(b)

\* Path::is_absolute (Unix)
IsAbsolute(p) == p # <<>> /\ Head(p) = "/"

\* Path::join: an absolute argument replaces the base.
PathJoin(base, p) ==
    IF IsAbsolute(p) THEN p
    ELSE IF base = <<>> \/ base[Len(base)] = "/" THEN base \o p
    ELSE base \o s_slash \o p

\* Path::components without the root: empty and "." components are dropped.
Components(p) == SelectSeq(Split(p, "/"), LAMBDA c : c # <<>> /\ c # s_dot)

\* Path::file_name: the last component, unless it is "..".
FileName(p) ==
    With(Components(p),
         LAMBDA cs : IF cs = <<>> \/ cs[Len(cs)] = s_dotdot THEN None ELSE Some(cs[Len(cs)]))

IsSeqPrefix(a, b) == Len(a) <= Len(b) /\ SubSeq(b, 1, Len(a)) = a

\* The text left of p once its first n components are consumed
\* (Components::as_path after iter_after).
RECURSIVE SkipComponents(_, _)
SkipComponents(p, n) ==
    IF p # <<>> /\ Head(p) = "/" THEN SkipComponents(Tail(p), n)
    ELSE IF p = s_dot THEN <<>>
    ELSE IF StartsWith(p, <<".","/">>) THEN SkipComponents(SubSeq(p, 3, Len(p)), n)
    ELSE IF n = 0 \/ p = <<>> THEN p
    ELSE IF Positions(p, "/") = {} THEN <<>>
    ELSE SkipComponents(SubSeq(p, SetMin(Positions(p, "/")), Len(p)), n - 1)

\* Path::strip_prefix, for absolute paths: component-wise.
PathStripPrefix(p, base) ==
    IF IsAbsolute(p) = IsAbsolute(base) /\ IsSeqPrefix(Components(base), Components(p))
    THEN Some(SkipComponents(p, Len(Components(base))))
    ELSE None

-----------------------------------------------------------------------------
(* The filesystem snapshot.  fs is a set of nodes [path, kind, len]: path   *)
(* is the absolute canonical path as a sequence of segments, kind is        *)
(* "file" (regular file), "special" (neither file nor directory) or         *)
(* "locked" (a directory that read_dir cannot list); every proper prefix    *)
(* of a node's path is a directory.                                         *)

\* The docs root that FileReader::new resolved and validated: /r
DocsRoot == <<"/","r">>

IsFileAt(c) == \E n \in fs : n.path = c /\ n.kind = "file"

IsSpecialAt(c) == \E n \in fs : n.path = c /\ n.kind = "special"

IsLockedAt(c) == \E n \in fs : n.path = c /\ n.kind = "locked"

IsDirAt(c) ==
    \/ IsSeqPrefix(c, Components(DocsRoot))
    \/ IsLockedAt(c)
    \/ \E n \in fs : Len(n.path) > Len(c) /\ IsSeqPrefix(c, n.path)

\* The kernel's path walk from the canonical directory cur.
RECURSIVE ResolveFrom(_, _)
ResolveFrom(cur, comps) ==
    IF comps = <<>> THEN Some(cur)
    ELSE IF ~IsDirAt(cur) THEN None
    ELSE IF Head(comps) = s_dotdot
         THEN ResolveFrom(IF cur = <<>> THEN cur ELSE SubSeq(cur, 1, Len(cur) - 1), Tail(comps))
    ELSE ResolveFrom(Append(cur, Head(comps)), Tail(comps))

\* The node an absolute path text names, if any; a trailing slash asks for
\* a directory.
Resolve(p) ==
    With(ResolveFrom(<<>>, Components(p)),
         LAMBDA r : IF ~r.some THEN None
                    ELSE IF p[Len(p)] = "/" /\ ~IsDirAt(r.v) THEN None
                    ELSE IF IsFileAt(r.v) \/ IsSpecialAt(r.v) \/ IsDirAt(r.v) THEN r
                    ELSE None)

\* Path::exists, Path::is_file, Path::is_dir
PathExists(p) == Resolve(p).some

PathIsFile(p) == With(Resolve(p), LAMBDA r : r.some /\ IsFileAt(r.v))

PathIsDir(p) == With(Resolve(p), LAMBDA r : r.some /\ IsDirAt(r.v))

\* std::fs::read_dir of a directory: the names in it, or an error.
ReadDir(p) ==
    With(Resolve(p).v,
         LAMBDA c : IF IsLockedAt(c) THEN [ok |-> FALSE, names |-> {}]
                    ELSE [ok |-> TRUE,
                          names |-> {n.path[Len(c) + 1] :
                                        n \in {m \in fs : /\ Len(m.path) > Len(c)
                                                          /\ IsSeqPrefix(c, m.path)}}])

\* std::fs::metadata(path).len() of a regular file
MetadataLen(p) == (CHOOSE n \in fs : n.path = Resolve(p).v).len

\* u64 -> u32 by try_into().unwrap_or(u32::MAX)
SaturateU32(n) == IF FitsU32(n) THEN n ELSE U32Max

-----------------------------------------------------------------------------
(* DocumentType: [tag, name]; name is the project or product, empty for    *)
(* Agreements.                                                              *)

DocTags == {"Agreements", "C1Diagram", "C2Diagram", "C3Diagram", "C4Diagram",
            "ErdDiagram", "AdrDocument", "OpenApiSpec", "GuideDoc"}

DocType(tag, name) == [tag |-> tag, name |-> name]

Agreements == DocType("Agreements", <<>>)

get_uri_prefix(document_type) ==
    CASE document_type.tag = "Agreements" -> <<"d","o","c","s",":","/","/","a","g","r","e","e","m","e","n","t","s","/">>
      [] document_type.tag = "ErdDiagram" ->
            Concat(<<<<"d","o","c","s",":","/","/","a","r","c","h","i","t","e","c","t","u","r","e","/","e","r","d","/">>, document_type.name, s_slash>>)
      [] document_type.tag \in {"C1Diagram", "C2Diagram", "C3Diagram"} ->
            Concat(<<<<"d","o","c","s",":","/","/","a","r","c","h","i","t","e","c","t","u","r","e","/">>, document_type.name, s_slash>>)
      [] document_type.tag = "C4Diagram" ->
            Concat(<<<<"d","o","c","s",":","/","/","a","r","c","h","i","t","e","c","t","u","r","e","/">>, document_type.name, <<"/","c","4","/">>>>)
      [] document_type.tag = "AdrDocument" ->
            Concat(<<<<"d","o","c","s",":","/","/","a","r","c","h","i","t","e","c","t","u","r","e","/">>, document_type.name, <<"/","a","d","r","/">>>>)
      [] document_type.tag = "OpenApiSpec" ->
            Concat(<<<<"d","o","c","s",":","/","/","o","p","e","n","a","p","i","/">>, document_type.name, s_slash>>)
      [] document_type.tag = "GuideDoc" ->
            Concat(<<<<"d","o","c","s",":","/","/","g","u","i","d","e","s","/">>, document_type.name, s_slash>>)

\* filename.split('-').next().unwrap_or("unknown").trim_end_matches(".mdx")
adr_number(filename) ==
    With(Split(filename, "-"),
         LAMBDA tokens :
            TrimEndMatches(UnwrapOr(IF tokens = <<>> THEN None ELSE Some(tokens[1]), s_unknown),
                           s_dot_mdx))

\* The file stem generate_description shows for a guide: the token before
\* the last of filename.split('.'), the whole name if it has no dot.
guide_stem(filename) ==
    With(Split(filename, "."),
         LAMBDA tokens : IF Len(tokens) >= 2 THEN tokens[Len(tokens) - 1] ELSE filename)

generate_description(document_type, area, lang, categories, filename) ==
    CASE document_type.tag = "Agreements" ->
            Concat(<<<<"A","g","r","e","e","m","e","n","t"," ","d","o","c","u","m","e","n","t",":"," ">>, Join(categories, <<","," ">>), <<" ","-"," ">>, area,
                     <<" ","(">>, lang, <<")">>>>)
      [] document_type.tag = "ErdDiagram" ->
            Concat(<<<<"E","R","D"," ","d","i","a","g","r","a","m"," ","f","o","r"," ">>, document_type.name, <<" ","p","r","o","j","e","c","t",":"," ">>,
                     TrimEndMatches(filename, s_dot_mdx)>>)
      [] document_type.tag = "C1Diagram" ->
            Concat(<<<<"C","1"," ","d","i","a","g","r","a","m"," ","f","o","r"," ">>, document_type.name, <<" ","p","r","o","j","e","c","t">>>>)
      [] document_type.tag = "C2Diagram" ->
            Concat(<<<<"C","2"," ","d","i","a","g","r","a","m"," ","f","o","r"," ">>, document_type.name, <<" ","p","r","o","j","e","c","t">>>>)
      [] document_type.tag = "C3Diagram" ->
            Concat(<<<<"C","3"," ","d","i","a","g","r","a","m"," ","f","o","r"," ">>, document_type.name, <<" ","p","r","o","j","e","c","t">>>>)
      [] document_type.tag = "C4Diagram" ->
            Concat(<<<<"C","4"," ","d","i","a","g","r","a","m"," ","f","o","r"," ">>, TrimEndMatches(filename, s_dot_mdx),
                     <<" ","s","e","r","v","i","c","e"," ","i","n"," ">>, document_type.name, <<" ","p","r","o","j","e","c","t">>>>)
      [] document_type.tag = "AdrDocument" ->
            Concat(<<s_adr_prefix, adr_number(filename), <<" ","f","o","r"," ">>, document_type.name,
                     <<" ","p","r","o","j","e","c","t">>>>)
      [] document_type.tag = "OpenApiSpec" ->
            Concat(<<<<"O","p","e","n","A","P","I"," ","s","p","e","c","i","f","i","c","a","t","i","o","n"," ","f","o","r"," ">>, TrimEndMatches(filename, s_dot_yaml),
                     <<" ","e","n","d","p","o","i","n","t"," ","i","n"," ">>, document_type.name, <<" ","p","r","o","j","e","c","t">>>>)
      [] document_type.tag = "GuideDoc" ->
            Concat(<<<<"G","u","i","d","e",":"," ">>, document_type.name, <<" ","-"," ">>,
                     ReplaceChar(guide_stem(filename), "_", " ")>>)

\* should_process_file that looks at the stem alone for C1, C2 and C3
should_process_file_by_stem(document_type, filename) ==
    With(Extension(filename),
         LAMBDA ext :
            CASE document_type.tag = "C1Diagram" -> FileStem(filename) = Some(s_c1)
              [] document_type.tag = "C2Diagram" -> FileStem(filename) = Some(s_c2)
              [] document_type.tag = "C3Diagram" -> FileStem(filename) = Some(s_c3)
              [] document_type.tag \in {"C4Diagram", "ErdDiagram", "AdrDocument"} ->
                    ext.some /\ EqIgnoreAsciiCase(ext.v, s_mdx)
              [] document_type.tag = "OpenApiSpec" ->
                    ext.some /\ EqIgnoreAsciiCase(ext.v, s_yaml)
              [] document_type.tag = "Agreements" ->
                    ext.some /\ (\/ EqIgnoreAsciiCase(ext.v, s_md)
                                 \/ EqIgnoreAsciiCase(ext.v, s_mdx)
                                 \/ EqIgnoreAsciiCase(ext.v, s_txt))
              [] document_type.tag = "GuideDoc" -> FALSE)

\* should_process_file that wants yaml in lower case
should_process_file_exact_yaml(document_type, filename) ==
    With(Extension(filename),
         LAMBDA ext :
            CASE document_type.tag = "C1Diagram" -> filename = s_c1_mdx
              [] document_type.tag = "C2Diagram" -> filename = s_c2_mdx
              [] document_type.tag = "C3Diagram" -> filename = s_c3_mdx
              [] document_type.tag \in {"C4Diagram", "ErdDiagram", "AdrDocument"} ->
                    ext.some /\ EqIgnoreAsciiCase(ext.v, s_mdx)
              [] document_type.tag = "OpenApiSpec" -> ext = Some(s_yaml)
              [] document_type.tag = "Agreements" ->
                    ext.some /\ (\/ EqIgnoreAsciiCase(ext.v, s_md)
                                 \/ EqIgnoreAsciiCase(ext.v, s_mdx)
                                 \/ EqIgnoreAsciiCase(ext.v, s_txt))
              [] document_type.tag = "GuideDoc" -> FALSE)

\* Determines if a file should be processed based on document type and filename
should_process_file(document_type, filename) ==
    With(Extension(filename),
         LAMBDA ext :
            CASE document_type.tag = "C1Diagram" -> filename = s_c1_mdx
              [] document_type.tag = "C2Diagram" -> filename = s_c2_mdx
              [] document_type.tag = "C3Diagram" -> filename = s_c3_mdx
              [] document_type.tag \in {"C4Diagram", "ErdDiagram", "AdrDocument"} ->
                    ext.some /\ EqIgnoreAsciiCase(ext.v, s_mdx)
              [] document_type.tag = "OpenApiSpec" ->
                    ext.some /\ EqIgnoreAsciiCase(ext.v, s_yaml)
              [] document_type.tag = "Agreements" ->
                    ext.some /\ (\/ EqIgnoreAsciiCase(ext.v, s_md)
                                 \/ EqIgnoreAsciiCase(ext.v, s_mdx)
                                 \/ EqIgnoreAsciiCase(ext.v, s_txt))
              [] document_type.tag = "GuideDoc" -> FALSE)

should_process_file_with_extensions(document_type, filename, allowed_extensions) ==
    With(ToAsciiLowercase(UnwrapOr(Extension(filename), <<>>)),
         LAMBDA extension :
    With(IF allowed_extensions = <<>> THEN TRUE
         ELSE \E i \in DOMAIN allowed_extensions : allowed_extensions[i] = extension,
         LAMBDA is_allowed_ext :
    With(UnwrapOr(FileStem(filename), <<>>),
         LAMBDA file_stem :
            CASE document_type.tag = "C1Diagram" -> file_stem = s_c1 /\ is_allowed_ext
              [] document_type.tag = "C2Diagram" -> file_stem = s_c2 /\ is_allowed_ext
              [] document_type.tag = "C3Diagram" -> file_stem = s_c3 /\ is_allowed_ext
              [] document_type.tag \in {"C4Diagram", "ErdDiagram", "AdrDocument",
                                        "OpenApiSpec", "GuideDoc"} -> is_allowed_ext
              [] document_type.tag = "Agreements" ->
                    should_process_file(document_type, filename))))

\* Determines MIME type by file extension
get_mime_type(filename) ==
    With(ToAsciiLowercase(UnwrapOr(Extension(filename), <<>>)),
         LAMBDA extension :
            IF extension \in {s_md, s_mdx} THEN s_text_markdown
            ELSE IF extension \in {s_yaml, s_yml} THEN s_application_x_yaml
            ELSE IF extension = s_rst THEN s_text_x_rst
            ELSE s_text_plain)

relative_under_target(relative_path_from_docs_root, scan_root) ==
    TrimStartMatchesChar(
        UnwrapOr(StripPrefix(relative_path_from_docs_root,
                             TrimEndMatchesChar(scan_root, "/") \o s_slash),
                 relative_path_from_docs_root),
        "/")

\* normalized == word || normalized.ends_with("/word") || normalized.contains("/word/")
names_area(normalized, word) ==
    \/ normalized = word
    \/ EndsWith(normalized, s_slash \o word)
    \/ Contains(normalized, s_slash \o word \o s_slash)

guess_agreements_area(scan_root) ==
    With(ToAsciiLowercase(TrimMatchesChar(scan_root, "/")),
         LAMBDA normalized :
            IF names_area(normalized, s_backend) THEN s_backend
            ELSE IF names_area(normalized, s_frontend) THEN s_frontend
            ELSE IF names_area(normalized, s_quality_assurance) THEN s_quality_assurance
            ELSE With(Split(normalized, "/"),
                      LAMBDA tokens :
                         With(Trim(tokens[Len(tokens)]),
                              LAMBDA last : IF last = s_docs \/ last = <<>> THEN <<>>
                                            ELSE last)))

\* (lang, categories) of an agreements file from its path under the scan root
parse_agreements_subpath(subpath, area) ==
    With(SelectSeq(Split(subpath, "/"), LAMBDA p : p # <<>>),
         LAMBDA parts :
            IF (area = s_backend \/ area = s_frontend) /\ Len(parts) >= 2
            THEN [lang |-> parts[1], categories |-> SubSeq(parts, 2, Len(parts) - 1)]
            ELSE [lang |-> <<>>, categories |-> SubSeq(parts, 1, Len(parts) - 1)])

-----------------------------------------------------------------------------
(* BTreeMap<DocumentKey, ResourceInfo>: the entries [key, value] in         *)
(* ascending key order.                                                     *)

\* BTreeInsert that keeps the entry a key already has (entry().or_insert())
BTreeInsertIfAbsent(m, k, v) ==
    IF \E i \in DOMAIN m : m[i].key = k THEN m
    ELSE SelectSeq(m, LAMBDA e : StrLess(e.key, k))
            \o <<[key |-> k, value |-> v]>>
            \o SelectSeq(m, LAMBDA e : StrLess(k, e.key))

\* BTreeMap::insert: the value of an equal key is replaced.
BTreeInsert(m, k, v) ==
    SelectSeq(m, LAMBDA e : StrLess(e.key, k))
        \o <<[key |-> k, value |-> v]>>
        \o SelectSeq(m, LAMBDA e : StrLess(k, e.key))

\* BTreeMap::get
BTreeGet(m, k) ==
    IF \E i \in DOMAIN m : m[i].key = k
    THEN Some(m[CHOOSE i \in DOMAIN m : m[i].key = k].value)
    ELSE None

\* BTreeMap::contains_key
BTreeContainsKey(m, k) == \E i \in DOMAIN m : m[i].key = k

\* BTreeMap::values: in key order
BTreeValues(m) == [i \in DOMAIN m |-> m[i].value]

BTreeKeys(m) == {m[i].key : i \in DOMAIN m}

-----------------------------------------------------------------------------
(* Classification *)

ResourceInfo(uri, file_path, area, lang, category, project, mime_type, size, description) ==
    [uri |-> uri, file_path |-> file_path, area |-> area, lang |-> lang,
     category |-> category, project |-> project, mime_type |-> mime_type,
     size |-> size, description |-> description]

Shape(uri, area, lang, categories, project) ==
    [kind |-> "entry", uri |-> uri, area |-> area, lang |-> lang,
     categories |-> categories, project |-> project]

OpenApiShape(project, service, version, access_level, sub, filename) ==
    Shape(Join(<<<<"d","o","c","s",":","/","/","o","p","e","n","a","p","i">>, project, service, version, access_level>> \o sub
                  \o <<filename>>, s_slash),
          s_openapi, <<>>, <<s_openapi, service, version, access_level>> \o sub, project)

\* part_is that never recognises the endpoints directory, so that it is
\* taken as the sub_category
part_is_but_endpoints(p, i, word) == word # <<"e","n","d","p","o","i","n","t","s">> /\ p[i] = word

\* path_parts[i] == word
part_is(p, i, word) == p[i] = word

\* arch_parts that never recognises an architecture path, so that the
\* generic shape decides
arch_parts_unrecognised(p) == FALSE

\* path_parts begins ["content", "docs", "architecture", project, ..]
arch_parts(p) ==
    /\ Len(p) >= 5
    /\ part_is(p, 1, s_content) /\ part_is(p, 2, s_docs) /\ part_is(p, 3, s_architecture)

\* path_parts begins ["content", "docs", "openapi-spec", ..]
openapi_parts(p) ==
    /\ Len(p) >= 3
    /\ part_is(p, 1, s_content) /\ part_is(p, 2, s_docs) /\ part_is(p, 3, s_openapi_spec)

\* path_parts begins ["openapi-spec", ..]
bare_openapi_parts(p) == Len(p) >= 1 /\ part_is(p, 1, s_openapi_spec)

\* The match on path_parts (p) in process_file: the first arm that fits decides.
match_path_parts(document_type, p, filename) ==
    IF arch_parts(p) /\ Len(p) = 6 /\ part_is(p, 5, s_c4) THEN
            Shape(Concat(<<<<"d","o","c","s",":","/","/","a","r","c","h","i","t","e","c","t","u","r","e","/">>, p[4], s_slash, p[6]>>),
                  s_architecture, <<>>,
                  <<CASE document_type.tag = "C1Diagram" -> s_c1
                      [] document_type.tag = "C2Diagram" -> s_c2
                      [] document_type.tag = "C3Diagram" -> s_c3
                      [] OTHER -> s_c4>>,
                  p[4])
        ELSE IF arch_parts(p) /\ Len(p) = 7 /\ part_is(p, 5, s_c4) /\ part_is(p, 6, s_services) THEN
            Shape(Concat(<<<<"d","o","c","s",":","/","/","a","r","c","h","i","t","e","c","t","u","r","e","/">>, p[4], <<"/","c","4","/">>, p[7]>>),
                  s_architecture, <<>>, <<s_c4>>, p[4])
        ELSE IF arch_parts(p) /\ Len(p) = 7 /\ part_is(p, 5, s_erd) /\ part_is(p, 6, s_services) THEN
            Shape(Concat(<<<<"d","o","c","s",":","/","/","a","r","c","h","i","t","e","c","t","u","r","e","/","e","r","d","/">>, p[4], s_slash, p[7]>>),
                  s_architecture, <<>>, <<s_erd>>, p[4])
        ELSE IF arch_parts(p) /\ Len(p) = 6 /\ part_is(p, 5, s_erd) THEN
            Shape(Concat(<<<<"d","o","c","s",":","/","/","a","r","c","h","i","t","e","c","t","u","r","e","/","e","r","d","/">>, p[4], s_slash, p[6]>>),
                  s_architecture, <<>>, <<s_erd>>, p[4])
        ELSE IF arch_parts(p) /\ Len(p) = 6 /\ part_is(p, 5, s_adr) THEN
            Shape(Concat(<<<<"d","o","c","s",":","/","/","a","r","c","h","i","t","e","c","t","u","r","e","/">>, p[4], <<"/","a","d","r","/">>, p[6]>>),
                  s_architecture, <<>>, <<s_adr, s_adr_prefix \o adr_number(p[6])>>, p[4])
        ELSE IF openapi_parts(p) /\ Len(p) = 9 /\ part_is(p, 8, s_endpoints) THEN
            OpenApiShape(p[4], p[5], p[6], p[7], <<>>, p[9])
        ELSE IF openapi_parts(p) /\ Len(p) = 8 THEN
            OpenApiShape(p[4], p[5], p[6], p[7], <<>>, p[8])
        ELSE IF openapi_parts(p) /\ Len(p) = 10 /\ part_is(p, 9, s_endpoints) THEN
            OpenApiShape(p[4], p[5], p[6], p[7], <<p[8]>>, p[10])
        ELSE IF openapi_parts(p) /\ Len(p) = 9 THEN
            OpenApiShape(p[4], p[5], p[6], p[7], <<p[8]>>, p[9])
        ELSE IF bare_openapi_parts(p) /\ Len(p) = 7 /\ part_is(p, 6, s_endpoints) THEN
            OpenApiShape(p[2], p[3], p[4], p[5], <<>>, p[7])
        ELSE IF bare_openapi_parts(p) /\ Len(p) = 6 THEN
            OpenApiShape(p[2], p[3], p[4], p[5], <<>>, p[6])
        ELSE IF bare_openapi_parts(p) /\ Len(p) = 8 /\ part_is(p, 7, s_endpoints) THEN
            OpenApiShape(p[2], p[3], p[4], p[5], <<p[6]>>, p[8])
        ELSE IF bare_openapi_parts(p) /\ Len(p) = 7 THEN
            OpenApiShape(p[2], p[3], p[4], p[5], <<p[6]>>, p[7])
        ELSE IF Len(p) >= 5 /\ part_is(p, 1, s_content) /\ part_is(p, 2, s_docs) THEN
            Shape(Concat(<<get_uri_prefix(document_type), p[3], s_slash, p[4], s_slash, p[5],
                           s_slash, filename>>),
                  p[3], p[4],
                  IF document_type.tag = "Agreements" THEN <<s_agreements, p[5]>> ELSE <<p[5]>>,
                  <<>>)
        ELSE IF Len(p) >= 3 /\ part_is(p, 1, s_content) /\ part_is(p, 2, s_docs) THEN [kind |-> "skip"]
        ELSE [kind |-> "err"]

\* path_parts of process_file and the match on them
path_shape(document_type, relative_path, filename) ==
    match_path_parts(document_type, Split(relative_path, "/"), filename)

\* The end of process_file and process_file_universal: the entry, if there
\* is one, is inserted.  [ok, resources, entry]
insert_entry(e, map) ==
    IF e.kind = "err" THEN [ok |-> FALSE, resources |-> map, entry |-> None]
    ELSE IF e.kind = "skip" THEN [ok |-> TRUE, resources |-> map, entry |-> None]
    ELSE [ok |-> TRUE, resources |-> BTreeInsert(map, e.info.uri, e.info),
          entry |-> Some(e.info)]

\* process_file up to the insert: "skip" (Ok without an entry), "err", or
\* the ResourceInfo to insert.  file_path is the absolute path text.
structural_entry(document_type, file_path) ==
    With(FileName(file_path),
         LAMBDA filename :
    With(PathStripPrefix(file_path, DocsRoot),
         LAMBDA relative_path :
            IF ~filename.some THEN [kind |-> "err"]
            ELSE IF ~should_process_file(document_type, filename.v) THEN [kind |-> "skip"]
            ELSE IF ~relative_path.some THEN [kind |-> "err"]
            ELSE With(path_shape(document_type, relative_path.v, filename.v),
                      LAMBDA s :
                         IF s.kind # "entry" THEN s
                         ELSE [kind |-> "entry",
                               info |-> ResourceInfo(
                                   s.uri, relative_path.v, s.area, s.lang, s.categories,
                                   s.project, get_mime_type(filename.v),
                                   SaturateU32(MetadataLen(file_path)),
                                   generate_description(document_type, s.area, s.lang,
                                                        s.categories, filename.v))])))

\* Processes a single file and adds to resources: [ok, resources, entry]
process_file(document_type, file_path, map) ==
    insert_entry(structural_entry(document_type, file_path), map)

\* fixed_fields that leaves the category list empty
fixed_fields_without_category(document_type, area, categories) ==
    [area |-> area, lang |-> <<>>, categories |-> <<>>, project |-> document_type.name]

\* (area, lang, categories, project) that process_file_universal gives a type
\* other than Agreements
fixed_fields(document_type, area, categories) ==
    [area |-> area, lang |-> <<>>, categories |-> categories, project |-> document_type.name]

\* (area, lang, categories, project) of process_file_universal
universal_fields(document_type, filename, subpath, scan_root) ==
    CASE document_type.tag = "C1Diagram" -> fixed_fields(document_type, s_architecture, <<s_c1>>)
      [] document_type.tag = "C2Diagram" -> fixed_fields(document_type, s_architecture, <<s_c2>>)
      [] document_type.tag = "C3Diagram" -> fixed_fields(document_type, s_architecture, <<s_c3>>)
      [] document_type.tag = "C4Diagram" -> fixed_fields(document_type, s_architecture, <<s_c4>>)
      [] document_type.tag = "ErdDiagram" ->
            fixed_fields(document_type, s_architecture, <<s_erd>>)
      [] document_type.tag = "AdrDocument" ->
            fixed_fields(document_type, s_architecture,
                         <<s_adr, s_adr_prefix \o adr_number(filename)>>)
      [] document_type.tag = "OpenApiSpec" -> fixed_fields(document_type, s_openapi, <<s_openapi>>)
      [] document_type.tag = "GuideDoc" -> fixed_fields(document_type, s_guides, <<s_guides>>)
      [] document_type.tag = "Agreements" ->
            With(guess_agreements_area(scan_root),
                 LAMBDA area :
            With(parse_agreements_subpath(subpath, area),
                 LAMBDA parsed :
                    [area |-> IF area = <<>> THEN s_agreements ELSE area,
                     lang |-> parsed.lang,
                     categories |-> <<s_agreements>> \o parsed.categories,
                     project |-> <<>>]))

\* The URI process_file_universal gives the file at subpath under its target
universal_uri(document_type, subpath, scan_root) ==
    IF document_type.tag = "Agreements"
    THEN With(guess_agreements_area(scan_root),
              LAMBDA area :
                 get_uri_prefix(document_type)
                    \o (IF area = <<>> THEN subpath
                        ELSE Concat(<<TrimEndMatchesChar(area, "/"), s_slash, subpath>>)))
    ELSE get_uri_prefix(document_type) \o subpath

\* process_file_universal up to the insert
universal_entry(document_type, file_path, scan_root, allowed_extensions) ==
    With(FileName(file_path),
         LAMBDA filename :
    With(PathStripPrefix(file_path, DocsRoot),
         LAMBDA relative_path :
            IF ~filename.some THEN [kind |-> "err"]
            ELSE IF ~should_process_file_with_extensions(document_type, filename.v,
                                                         allowed_extensions)
                 THEN [kind |-> "skip"]
            ELSE IF ~relative_path.some THEN [kind |-> "err"]
            ELSE With(relative_under_target(relative_path.v, scan_root),
                      LAMBDA subpath :
                 With(universal_fields(document_type, filename.v, subpath, scan_root),
                      LAMBDA f :
                         [kind |-> "entry",
                          info |-> ResourceInfo(
                              universal_uri(document_type, subpath, scan_root),
                              relative_path.v, f.area, f.lang, f.categories, f.project,
                              get_mime_type(filename.v),
                              SaturateU32(MetadataLen(file_path)),
                              generate_description(document_type, f.area, f.lang,
                                                   f.categories, filename.v))]))))

\* [ok, resources, entry]
process_file_universal(document_type, file_path, scan_root, allowed_extensions, map) ==
    insert_entry(universal_entry(document_type, file_path, scan_root, allowed_extensions), map)

-----------------------------------------------------------------------------
(* The scanner's entry points and main's scan order *)

\* One call of DocumentScanner::scan_documents (exts unused) or
\* DocumentScanner::scan_documents_with_extensions.
ScanCall(fn, document_type, targets, exts) ==
    [fn |-> fn, document_type |-> document_type, targets |-> targets, exts |-> exts]

\* scan_documents scans Agreements through scan_target_with_extensions with
\* no extension list, every other type through scan_area.
IsUniversal(call) ==
    call.fn = "scan_documents_with_extensions" \/ call.document_type.tag = "Agreements"

CallExts(call) == IF call.fn = "scan_documents" THEN <<>> ELSE call.exts

\* ProjectCalls with the services scan ahead of the C1, C2 and C3 scans
ProjectCallsServicesFirst(cfg, project) ==
    <<ScanCall("scan_documents_with_extensions", DocType("C4Diagram", project.name),
               project.services, cfg.diagram_extensions),
      ScanCall("scan_documents_with_extensions", DocType("C1Diagram", project.name),
               project.c1, cfg.diagram_extensions),
      ScanCall("scan_documents_with_extensions", DocType("C2Diagram", project.name),
               project.c2, cfg.diagram_extensions),
      ScanCall("scan_documents_with_extensions", DocType("C3Diagram", project.name),
               project.c3, cfg.diagram_extensions),
      ScanCall("scan_documents_with_extensions", DocType("ErdDiagram", project.name),
               project.erd, cfg.diagram_extensions),
      ScanCall("scan_documents_with_extensions", DocType("AdrDocument", project.name),
               project.adr, cfg.diagram_extensions),
      ScanCall("scan_documents_with_extensions", DocType("OpenApiSpec", project.name),
               project.openapi, cfg.openapi_extensions)>>

\* The scan calls main makes for one project, in order.
ProjectCalls(cfg, project) ==
    <<ScanCall("scan_documents_with_extensions", DocType("C1Diagram", project.name),
               project.c1, cfg.diagram_extensions),
      ScanCall("scan_documents_with_extensions", DocType("C2Diagram", project.name),
               project.c2, cfg.diagram_extensions),
      ScanCall("scan_documents_with_extensions", DocType("C3Diagram", project.name),
               project.c3, cfg.diagram_extensions),
      ScanCall("scan_documents_with_extensions", DocType("C4Diagram", project.name),
               project.services, cfg.diagram_extensions),
      ScanCall("scan_documents_with_extensions", DocType("ErdDiagram", project.name),
               project.erd, cfg.diagram_extensions),
      ScanCall("scan_documents_with_extensions", DocType("AdrDocument", project.name),
               project.adr, cfg.diagram_extensions),
      ScanCall("scan_documents_with_extensions", DocType("OpenApiSpec", project.name),
               project.openapi, cfg.openapi_extensions)>>

RECURSIVE AllProjectCalls(_, _)
AllProjectCalls(cfg, projects) ==
    IF projects = <<>> THEN <<>>
    ELSE ProjectCalls(cfg, Head(projects)) \o AllProjectCalls(cfg, Tail(projects))

\* The scan calls of main, in order.
MainCalls(cfg) ==
    <<ScanCall("scan_documents", Agreements, cfg.agreements, <<>>)>>
        \o AllProjectCalls(cfg, cfg.projects)
        \o [i \in DOMAIN cfg.guides |->
               ScanCall("scan_documents_with_extensions", DocType("GuideDoc", cfg.guides[i].name),
                        cfg.guides[i].paths, cfg.guide_extensions)]

\* TypedDescends that lets the C4Diagram walk enter every directory
TypedDescendsAnyForC4(document_type, name) ==
    IF document_type.tag \in {"C1Diagram", "C2Diagram", "C3Diagram"} THEN FALSE ELSE TRUE

\* TypedDescends that lets every typed walk enter every directory
TypedDescendsAll(document_type, name) == TRUE

\* The scan descends into the directory called name (typed walk).
TypedDescends(document_type, name) ==
    IF document_type.tag \in {"C1Diagram", "C2Diagram", "C3Diagram"} THEN FALSE
    ELSE IF document_type.tag = "C4Diagram" THEN name = s_services
    ELSE TRUE

-----------------------------------------------------------------------------
(* The scan as a state machine: one step starts a target or visits one     *)
(* directory entry, in whatever order read_dir yields the entries.          *)

\* The first call at or after c that has a target; Len(calls) + 1 if none.
RECURSIVE FirstCallFrom(_)
FirstCallFrom(c) ==
    IF c > Len(calls) THEN c
    ELSE IF calls[c].targets # <<>> THEN c
    ELSE FirstCallFrom(c + 1)

CurCall == calls[ci]

CurTarget == calls[ci].targets[ti]

\* The frames that still have entries to visit.
RECURSIVE PopEmpty(_)
PopEmpty(st) ==
    IF st # <<>> /\ st[Len(st)].todo = {} THEN PopEmpty(SubSeq(st, 1, Len(st) - 1)) ELSE st

Outcome(status, st, map, warns, entry) ==
    [status |-> status, stack |-> st, resources |-> map, warns |-> warns, entry |-> entry]

Warn(kind, target) == [kind |-> kind, target |-> target]

\* The warning scan_documents / scan_documents_with_extensions logs for an Err.
FailWarn(call, target) ==
    IF IsUniversal(call) THEN Warn("Failed to scan target", target)
    ELSE Warn("Failed to scan area", target)

Failed(call, target, map) == Outcome("failed", <<>>, map, <<FailWarn(call, target)>>, None)

\* Listing directory dir on top of the frames st: read_dir fails, or its
\* entries wait in a new frame.
EnterDir(call, target, st, dir, map) ==
    With(ReadDir(dir),
         LAMBDA listing :
    With(PopEmpty(Append(st, [dir |-> dir, todo |-> listing.names])),
         LAMBDA st2 :
            IF ~listing.ok THEN Failed(call, target, map)
            ELSE Outcome(IF st2 = <<>> THEN "ok" ELSE "running", st2, map, <<>>, None)))

\* A file of the walk: process_file or process_file_universal, then on.
VisitFile(call, target, st, path, map) ==
    With(IF IsUniversal(call)
         THEN process_file_universal(call.document_type, path, target, CallExts(call), map)
         ELSE process_file(call.document_type, path, map),
         LAMBDA r :
            IF ~r.ok THEN Failed(call, target, map)
            ELSE Outcome(IF PopEmpty(st) = <<>> THEN "ok" ELSE "running", PopEmpty(st),
                         r.resources, <<>>, r.entry))

\* scan_target_with_extensions up to its first directory entry
scan_target_with_extensions(call, target, map) ==
    With(PathJoin(DocsRoot, target),
         LAMBDA full_path :
            IF ~PathExists(full_path)
            THEN Outcome("missing", <<>>, map, <<Warn("Scan target does not exist", target)>>,
                         None)
            ELSE IF PathIsFile(full_path) THEN VisitFile(call, target, <<>>, full_path, map)
            ELSE IF ~PathIsDir(full_path)
            THEN Outcome("notdir", <<>>, map,
                         <<Warn("Scan target is not a directory", target)>>, None)
            ELSE EnterDir(call, target, <<>>, full_path, map))

\* scan_area up to its first directory entry
scan_area(call, area_path, map) ==
    With(PathJoin(DocsRoot, area_path),
         LAMBDA full_path :
            IF ~PathExists(full_path)
            THEN Outcome("missing", <<>>, map, <<FailWarn(call, area_path)>>, None)
            ELSE IF ~PathIsDir(full_path)
            THEN Outcome("notdir", <<>>, map, <<FailWarn(call, area_path)>>, None)
            ELSE EnterDir(call, area_path, <<>>, full_path, map))

\* scan_directory_entry that descends only where the typed walk of the
\* document type descends
scan_directory_entry_typed_descent(call, target, st, name, map) ==
    With(PathJoin(st[Len(st)].dir, name),
         LAMBDA path :
    With([st EXCEPT ![Len(st)].todo = @ \ {name}],
         LAMBDA rest :
            IF PathIsDir(path)
            THEN IF TypedDescends(call.document_type, name)
                 THEN EnterDir(call, target, rest, path, map)
                 ELSE Outcome(IF PopEmpty(rest) = <<>> THEN "ok" ELSE "running",
                              PopEmpty(rest), map, <<>>, None)
            ELSE IF PathIsFile(path) THEN VisitFile(call, target, rest, path, map)
            ELSE Outcome(IF PopEmpty(rest) = <<>> THEN "ok" ELSE "running", PopEmpty(rest),
                         map, <<>>, None)))

\* One turn of the loop of scan_directory_recursive /
\* scan_directory_recursive_universal on the entry called name.
scan_directory_entry(call, target, st, name, map) ==
    With(PathJoin(st[Len(st)].dir, name),
         LAMBDA path :
    With([st EXCEPT ![Len(st)].todo = @ \ {name}],
         LAMBDA rest :
            IF PathIsDir(path)
            THEN IF IsUniversal(call) \/ TypedDescends(call.document_type, name)
                 THEN EnterDir(call, target, rest, path, map)
                 ELSE Outcome(IF PopEmpty(rest) = <<>> THEN "ok" ELSE "running",
                              PopEmpty(rest), map, <<>>, None)
            ELSE IF PathIsFile(path) THEN VisitFile(call, target, rest, path, map)
            ELSE Outcome(IF PopEmpty(rest) = <<>> THEN "ok" ELSE "running", PopEmpty(rest),
                         map, <<>>, None)))

\* next_target leaving the call at the first target that does not scan
next_target_stop_on_error(c, t, status) ==
    IF status = "ok" /\ t < Len(calls[c].targets) THEN [ci |-> c, ti |-> t + 1]
    ELSE [ci |-> FirstCallFrom(c + 1), ti |-> 1]

\* The loops of scan_documents / scan_documents_with_extensions over the
\* targets and of main over the calls: the position after target t of call c
\* ended with status.
next_target(c, t, status) ==
    IF t < Len(calls[c].targets) THEN [ci |-> c, ti |-> t + 1]
    ELSE [ci |-> FirstCallFrom(c + 1), ti |-> 1]

\* f with key k set to v
Put(f, k, v) == [x \in DOMAIN f \cup {k} |-> IF x = k THEN v ELSE f[x]]

\* The state after a step with outcome o; first says the step started the
\* target.  The history keeps, per target, the entry it inserted last for
\* each URI.
Apply(o, first) ==
    /\ resources' = o.resources
    /\ stack' = o.stack
    /\ log' = log \o o.warns
    /\ trace' =
          With(IF first THEN [ci |-> ci, ti |-> ti, status |-> o.status, ins |-> <<>>]
               ELSE [trace[Len(trace)] EXCEPT !.status = o.status],
               LAMBDA rec :
                  (IF first THEN trace ELSE SubSeq(trace, 1, Len(trace) - 1))
                     \o <<IF o.entry.some
                          THEN [rec EXCEPT !.ins = Put(@, o.entry.v.uri, o.entry.v)]
                          ELSE rec>>)
    /\ lastIns' = IF o.entry.some THEN Put(lastIns, o.entry.v.uri, o.entry.v) ELSE lastIns
    /\ IF o.status = "running"
       THEN UNCHANGED <<ci, ti, phase>>
       ELSE /\ ci' = next_target(ci, ti, o.status).ci
            /\ ti' = next_target(ci, ti, o.status).ti
            /\ phase' = IF next_target(ci, ti, o.status).ci > Len(calls) THEN "scanned"
                        ELSE "scan"
    /\ UNCHANGED <<fs, config, calls, run, firstIndex, published, sessions, resp>>

\* The scan turns to its next target.
StartTarget ==
    /\ phase = "scan"
    /\ stack = <<>>
    /\ Apply(IF IsUniversal(CurCall)
             THEN scan_target_with_extensions(CurCall, CurTarget, resources)
             ELSE scan_area(CurCall, CurTarget, resources), TRUE)

\* read_dir yields one more entry of the directory being listed.
VisitEntry ==
    /\ phase = "scan"
    /\ stack # <<>>
    /\ \E name \in stack[Len(stack)].todo :
          Apply(scan_directory_entry(CurCall, CurTarget, stack, name, resources), FALSE)

\* The scan is run once more over the same tree with the same calls, into a
\* new index (fresh) or into the index the first run filled.
Rescan ==
    /\ phase = "scanned"
    /\ run = 1
    /\ \E fresh \in BOOLEAN :
          /\ resources' = IF fresh THEN <<>> ELSE resources
          /\ lastIns' = IF fresh THEN <<>> ELSE lastIns
    /\ firstIndex' = resources
    /\ run' = 2
    /\ ci' = FirstCallFrom(1)
    /\ ti' = 1
    /\ phase' = IF FirstCallFrom(1) > Len(calls) THEN "scanned" ELSE "scan"
    /\ trace' = <<>>
    /\ UNCHANGED <<fs, config, calls, stack, log, published, sessions, resp>>

-----------------------------------------------------------------------------
(* DocumentServer (src/src/server.rs).  A handler takes the server and its  *)
(* arguments and yields [self, result]: the server after the call and the  *)
(* result, which is Ok(body), Err(code, message) or a panic.                *)

Ok(body) == [kind |-> "ok", body |-> body]

Err(code, message) == [kind |-> "err", code |-> code, message |-> message]

Panic(message) == [kind |-> "panic", message |-> message]

Reply(self, result) == [self |-> self, result |-> result]

\* new_with_resources that starts the server on an empty index
new_with_resources_empty(file_reader, map) ==
    [file_reader |-> file_reader, resources |-> <<>>]

\* DocumentServer::new_with_resources
new_with_resources(file_reader, map) == [file_reader |-> file_reader, resources |-> map]

\* FileReader::read_file_content: the file read is named by its canonical
\* path; any failure is an Err.
read_file_content(file_reader, relative_path) ==
    With(Resolve(PathJoin(file_reader.docs_root, relative_path)),
         LAMBDA canonical :
            IF ~canonical.some THEN [ok |-> FALSE, error |-> "NotFound"]
            ELSE IF ~IsSeqPrefix(Components(file_reader.docs_root), canonical.v)
            THEN [ok |-> FALSE, error |-> "PermissionDenied"]
            ELSE IF ~IsFileAt(canonical.v) THEN [ok |-> FALSE, error |-> "Other"]
            ELSE [ok |-> TRUE, content_of |-> canonical.v])

\* DocumentServer::read_file_by_path
read_file_by_path(self, file_path) ==
    With(read_file_content(self.file_reader, file_path),
         LAMBDA r : IF r.ok THEN Ok(r.content_of) ELSE Err("internal_error", "file_read_error"))

\* matches_filter comparing the tokens as they are split, not trimmed
matches_filter_untrimmed(value, filter) ==
    IF ~filter.some THEN TRUE
    ELSE With(Split(filter.v, "|"),
              LAMBDA filter_values : \E i \in DOMAIN filter_values : filter_values[i] = value)

\* Checks if a value matches any of the filter values (OR with | separator)
matches_filter(value, filter) ==
    IF ~filter.some THEN TRUE
    ELSE With(Split(filter.v, "|"),
              LAMBDA filter_values : \E i \in DOMAIN filter_values :
                                        Trim(filter_values[i]) = value)

\* Checks if any category matches any of the filter values
matches_category_filter(categories, filter) ==
    IF ~filter.some THEN TRUE
    ELSE With(Split(filter.v, "|"),
              LAMBDA filter_values :
                 \E c \in DOMAIN categories : \E i \in DOMAIN filter_values :
                    Trim(filter_values[i]) = categories[c])

\* Filters documents based on the provided criteria: in key order
filter_documents(self, args) ==
    SelectSeq(BTreeValues(self.resources),
              LAMBDA info : /\ matches_filter(info.area, args.area)
                            /\ matches_filter(info.lang, args.lang)
                            /\ matches_category_filter(info.category, args.category))

\* get_resource_content that looks the path up before it checks the scheme
get_resource_content_lookup_first(self, path) ==
    With(BTreeGet(self.resources, path),
         LAMBDA resource_info :
            IF ~resource_info.some
            THEN Reply(self, Err("resource_not_found", "resource_not_found"))
            ELSE IF ~StartsWith(path, s_docs_scheme)
            THEN Reply(self, Err("invalid_params", "invalid_path"))
            ELSE Reply(self, read_file_by_path(self, resource_info.v.file_path)))

get_resource_content(self, path) ==
    IF ~StartsWith(path, s_docs_scheme) THEN Reply(self, Err("invalid_params", "invalid_path"))
    ELSE With(BTreeGet(self.resources, path),
              LAMBDA resource_info :
                 IF ~resource_info.some
                 THEN Reply(self, Err("resource_not_found", "resource_not_found"))
                 ELSE Reply(self, read_file_by_path(self, resource_info.v.file_path)))

\* The second half of get_docs_list: the page of filtered_docs.
paginate(self, filtered_docs, page, limit, overflow_checks) ==
    LET total_documents == WrapU32(Wide(Len(filtered_docs)))
        sum == WideAdd(total_documents, WideDec(limit)).v
        product == WideMulSmall(WideDec(page), ToNat(limit)).v
        start_index == WrapU32(product)
        stop == WideAdd(start_index, limit).v
        end_index == IF WideCmp(stop, Wide(Len(filtered_docs))) = -1
                     THEN ToNat(stop) ELSE Len(filtered_docs)
    IN  IF overflow_checks /\ (~FitsU32(sum) \/ ~FitsU32(product))
        THEN Reply(self, Panic("arithmetic overflow"))
        ELSE IF WideCmp(start_index, Wide(end_index)) = 1
        THEN Reply(self, Panic("slice index starts past its end"))
        ELSE Reply(self, Ok([documents |-> SubSeq(filtered_docs, ToNat(start_index) + 1,
                                                  end_index),
                             total_pages |-> WideDivSmall(WrapU32(sum), ToNat(limit)),
                             current_page |-> page,
                             limit |-> limit,
                             total_documents |-> total_documents]))

\* get_docs_list_page without the upper bound on limit
get_docs_list_page_unbounded(self, args, page, limit, overflow_checks) ==
    IF page = Wide(0) THEN Reply(self, Err("invalid_params", "invalid_page"))
    ELSE IF limit = Wide(0) THEN Reply(self, Err("invalid_params", "invalid_limit"))
    ELSE paginate(self, filter_documents(self, args), page, limit, overflow_checks)

\* get_docs_list once page and limit have their defaults
get_docs_list_page(self, args, page, limit, overflow_checks) ==
    IF page = Wide(0) THEN Reply(self, Err("invalid_params", "invalid_page"))
    ELSE IF limit = Wide(0) \/ WideCmp(limit, Wide(200)) = 1
    THEN Reply(self, Err("invalid_params", "invalid_limit"))
    ELSE paginate(self, filter_documents(self, args), page, limit, overflow_checks)

\* overflow_checks: whether the build traps on integer overflow (debug) or
\* wraps (release).
get_docs_list(self, args, overflow_checks) ==
    get_docs_list_page(self, args, UnwrapOr(args.page, Wide(1)), UnwrapOr(args.limit, Wide(50)),
                       overflow_checks)

\* str::parse::<u32>: an optional + and decimal digits that fit 32 bits.
Digits == <<"0","1","2","3","4","5","6","7","8","9">>

DigitValue(c) == (CHOOSE i \in DOMAIN Digits : Digits[i] = c) - 1

RECURSIVE ParseDigits(_, _)
ParseDigits(s, acc) ==
    IF s = <<>> THEN Some(acc)
    ELSE IF ~\E i \in DOMAIN Digits : Digits[i] = Head(s) THEN None
    ELSE LET next == WideAdd(WideMulSmall(acc, 10).v, Wide(DigitValue(Head(s)))).v
         IN  IF ~FitsU32(next) THEN None ELSE ParseDigits(Tail(s), next)

ParseU32(s) ==
    LET digits == IF s # <<>> /\ Head(s) = "+" THEN Tail(s) ELSE s
    IN  IF digits = <<>> THEN None ELSE ParseDigits(digits, Wide(0))

\* The closure get_adr_number of get_all_adr_documents
get_adr_number(info) ==
    With({i \in DOMAIN info.category : StartsWith(info.category[i], s_adr_prefix)},
         LAMBDA hits :
            IF hits = {} THEN Wide(0)
            ELSE UnwrapOr(ParseU32(StripPrefix(info.category[SetMin(hits)], s_adr_prefix).v),
                          Wide(0)))

\* InsertByAdrNumber of an unstable sort: x goes before the elements of its
\* number
InsertByAdrNumberUnstable(sorted, x) ==
    With({i \in DOMAIN sorted : WideCmp(get_adr_number(sorted[i]), get_adr_number(x)) = -1},
         LAMBDA keep :
    With(IF keep = {} THEN 0 ELSE SetMax(keep),
         LAMBDA k : SubSeq(sorted, 1, k) \o <<x>> \o SubSeq(sorted, k + 1, Len(sorted))))

\* x put after the last element of sorted whose number is not greater
InsertByAdrNumber(sorted, x) ==
    With({i \in DOMAIN sorted : WideCmp(get_adr_number(sorted[i]), get_adr_number(x)) # 1},
         LAMBDA keep :
    With(IF keep = {} THEN 0 ELSE SetMax(keep),
         LAMBDA k : SubSeq(sorted, 1, k) \o <<x>> \o SubSeq(sorted, k + 1, Len(sorted))))

\* slice::sort_by on the ADR number: stable.
RECURSIVE SortByAdrNumber(_)
SortByAdrNumber(docs) ==
    IF docs = <<>> THEN <<>>
    ELSE InsertByAdrNumber(SortByAdrNumber(SubSeq(docs, 1, Len(docs) - 1)), docs[Len(docs)])

get_all_adr_documents(self) ==
    With(SortByAdrNumber(SelectSeq(BTreeValues(self.resources),
                                   LAMBDA info : \E i \in DOMAIN info.category :
                                                    StartsWith(info.category[i], s_adr_prefix))),
         LAMBDA sorted_adr_documents :
            Reply(self, Ok([adr_documents |-> sorted_adr_documents,
                            total_adr_documents |->
                                WrapU32(Wide(Len(sorted_adr_documents)))])))

RECURSIVE SumSizes(_)
SumSizes(docs) == IF docs = <<>> THEN Wide(0) ELSE WideAdd(Head(docs).size, SumSizes(Tail(docs))).v

\* docs[d] pushed once per occurrence of key in keys[d], docs in order
RECURSIVE GroupUnder(_, _, _)
GroupUnder(docs, keys, key) ==
    IF docs = <<>> THEN <<>>
    ELSE LET times == Cardinality({i \in DOMAIN Head(keys) : Head(keys)[i] = key})
         IN  [i \in 1..times |-> Head(docs)] \o GroupUnder(Tail(docs), Tail(keys), key)

\* A BTreeMap<String, Vec<ResourceInfo>> built by
\* entry(key).or_insert_with(Vec::new).push(doc) for each key of keys[d]
GroupBy(docs, keys) ==
    [k \in UNION {{keys[d][i] : i \in DOMAIN keys[d]} : d \in DOMAIN docs} |->
        GroupUnder(docs, keys, k)]

get_project_overview(self, project) ==
    LET project_documents ==
            SelectSeq(BTreeValues(self.resources), LAMBDA info : info.project = project)
        by_type == [d \in DOMAIN project_documents |-> project_documents[d].category]
        by_area == [d \in DOMAIN project_documents |-> <<project_documents[d].area>>]
        by_language == [d \in DOMAIN project_documents |->
                           <<IF project_documents[d].lang = <<>> THEN s_none
                             ELSE project_documents[d].lang>>]
    IN  IF project_documents = <<>>
        THEN Reply(self, Err("resource_not_found", "project_not_found"))
        ELSE Reply(self, Ok([project |-> project,
                             total_documents |-> WrapU32(Wide(Len(project_documents))),
                             total_size |-> SumSizes(project_documents),
                             documents_by_type |-> GroupBy(project_documents, by_type),
                             documents_by_area |-> GroupBy(project_documents, by_area),
                             documents_by_language |-> GroupBy(project_documents, by_language),
                             all_documents |-> project_documents]))

\* get_agreements that filters on the category alone
get_agreements_any_language(self, lang) ==
    LET agreement_documents ==
            SelectSeq(BTreeValues(self.resources),
                      LAMBDA info : \E i \in DOMAIN info.category :
                                       info.category[i] = s_agreements)
    IN  Reply(self, Ok([lang |-> lang,
                        agreements |-> agreement_documents,
                        total_agreements |-> WrapU32(Wide(Len(agreement_documents)))]))

get_agreements(self, lang) ==
    LET agreement_documents ==
            SelectSeq(BTreeValues(self.resources),
                      LAMBDA info : /\ info.lang = lang
                                    /\ \E i \in DOMAIN info.category :
                                          info.category[i] = s_agreements)
    IN  Reply(self, Ok([lang |-> lang,
                        agreements |-> agreement_documents,
                        total_agreements |-> WrapU32(Wide(Len(agreement_documents)))]))

list_resources(self) ==
    Reply(self, Ok([resources |->
                       [i \in DOMAIN self.resources |->
                           [uri |-> self.resources[i].value.uri,
                            name |-> self.resources[i].value.description,
                            description |-> Some(self.resources[i].value.description),
                            mime_type |-> Some(self.resources[i].value.mime_type),
                            size |-> Some(self.resources[i].value.size)]],
                    next_cursor |-> None]))

read_resource(self, uri) ==
    With(BTreeGet(self.resources, uri),
         LAMBDA resource_info :
            IF ~resource_info.some
            THEN Reply(self, Err("resource_not_found", "resource_not_found"))
            ELSE With(read_file_by_path(self, resource_info.v.file_path),
                      LAMBDA content :
                         IF content.kind # "ok" THEN Reply(self, content)
                         ELSE Reply(self, Ok([uri |-> uri,
                                              mime_type |-> Some(resource_info.v.mime_type),
                                              text |-> content.body]))))

subscribe(self, uri) ==
    IF ~BTreeContainsKey(self.resources, uri)
    THEN Reply(self, Err("resource_not_found", "resource_not_found"))
    ELSE Reply(self, Ok(<<>>))

unsubscribe(self, uri) == Reply(self, Ok(<<>>))

-----------------------------------------------------------------------------
(* Serving: main hands the index to the service factory, which builds one  *)
(* DocumentServer per session from a clone of it.                           *)

\* The most sessions of a run.
MaxSessions == 2

SessionIds == 1..MaxSessions

FileReader == [docs_root |-> DocsRoot]

\* main: its one scan is over and the index moves into the factory closure.
Publish ==
    /\ phase = "scanned"
    /\ run = 1
    /\ phase' = "serve"
    /\ published' = resources
    /\ UNCHANGED <<fs, config, calls, ci, ti, stack, resources, log, trace, lastIns, run,
                   firstIndex, sessions, resp>>

\* The factory closure of main: a new session's server.  Sessions are
\* numbered as they come.
NewSession ==
    /\ phase = "serve"
    /\ \E s \in SessionIds :
          /\ ~sessions[s].some
          /\ \A t \in 1..(s - 1) : sessions[t].some
          /\ sessions' = [sessions EXCEPT ![s] = Some(new_with_resources(FileReader, resources))]
    /\ UNCHANGED <<fs, config, calls, ci, ti, stack, resources, log, trace, lastIns, phase, run,
                   firstIndex, published, resp>>

\* Session s gets reply to its request op(args).
Respond(s, op, args, reply) ==
    /\ sessions' = [sessions EXCEPT ![s] = Some(reply.self)]
    /\ resp' = [session |-> s, op |-> op, args |-> args, result |-> reply.result]
    /\ UNCHANGED <<fs, config, calls, ci, ti, stack, resources, log, trace, lastIns, phase, run,
                   firstIndex, published>>

Live(s) == phase = "serve" /\ sessions[s].some

ListArgs(area, lang, category, page, limit) ==
    [area |-> area, lang |-> lang, category |-> category, page |-> page, limit |-> limit]

GetDocsList(argset) ==
    \E s \in SessionIds : \E args \in argset : \E overflow_checks \in BOOLEAN :
        /\ Live(s)
        /\ Respond(s, "get_docs_list", args, get_docs_list(sessions[s].v, args, overflow_checks))

GetResourceContent(paths) ==
    \E s \in SessionIds : \E path \in paths :
        /\ Live(s)
        /\ Respond(s, "get_resource_content", path, get_resource_content(sessions[s].v, path))

GetAllAdrDocuments ==
    \E s \in SessionIds :
        /\ Live(s)
        /\ Respond(s, "get_all_adr_documents", <<>>, get_all_adr_documents(sessions[s].v))

GetProjectOverview(projects) ==
    \E s \in SessionIds : \E project \in projects :
        /\ Live(s)
        /\ Respond(s, "get_project_overview", project, get_project_overview(sessions[s].v, project))

GetAgreements(langs) ==
    \E s \in SessionIds : \E lang \in langs :
        /\ Live(s)
        /\ Respond(s, "get_agreements", lang, get_agreements(sessions[s].v, lang))

ListResources ==
    \E s \in SessionIds :
        /\ Live(s)
        /\ Respond(s, "list_resources", <<>>, list_resources(sessions[s].v))

ReadResource(uris) ==
    \E s \in SessionIds : \E uri \in uris :
        /\ Live(s)
        /\ Respond(s, "read_resource", uri, read_resource(sessions[s].v, uri))

Subscribe(uris) ==
    \E s \in SessionIds : \E uri \in uris :
        /\ Live(s)
        /\ Respond(s, "subscribe", uri, subscribe(sessions[s].v, uri))

Unsubscribe(uris) ==
    \E s \in SessionIds : \E uri \in uris :
        /\ Live(s)
        /\ Respond(s, "unsubscribe", uri, unsubscribe(sessions[s].v, uri))

-----------------------------------------------------------------------------
(* Runs: a configuration scanned by main, or direct calls of the scanner,  *)
(* over a documentation tree.                                               *)

\* The most files and locked directories of a tree.
MaxFiles == 2

Node(path, kind, len) == [path |-> path, kind |-> kind, len |-> len]

ProjectConfig(name, c1, c2, c3, services, erd, adr, openapi) ==
    [name |-> name, c1 |-> c1, c2 |-> c2, c3 |-> c3, services |-> services,
     erd |-> erd, adr |-> adr, openapi |-> openapi]

GuideConfig(name, paths) == [name |-> name, paths |-> paths]

\* A configuration, as Config::load leaves it: extensions lower-case, without
\* the dot, sorted and without duplicates.
Config(agreements, projects, guides) ==
    [agreements |-> agreements, projects |-> projects, guides |-> guides,
     diagram_extensions |-> <<<<"d","o","t">>, <<"m","d","x">>, <<"p","u","m","l">>>>,
     openapi_extensions |-> <<<<"y","a","m","l">>, <<"y","m","l">>>>,
     guide_extensions |-> <<<<"r","s","t">>>>]

\* main over a configuration; nodes are the files the tree may hold.
MainRun(cfg, nodes) == [config |-> Some(cfg), calls |-> MainCalls(cfg), nodes |-> nodes]

\* Direct calls of the scanner, as the tests of models.rs make them.
ApiRun(cs, nodes) == [config |-> None, calls |-> cs, nodes |-> nodes]

\* One project with a missing C1 target between two that exist, a services
\* target inside the first C1 target, and one guide.
RunOneProject ==
    MainRun(Config(<<<<"c","o","n","t","e","n","t","/","d","o","c","s","/","b","a","c","k","e","n","d">>>>,
                   <<ProjectConfig(<<"p">>, <<<<"a","r","c","h","/","c","4">>, <<"m","i","s","s","i","n","g">>, <<"a","l","t","/","c","4">>>>, <<>>, <<>>,
                                   <<<<"a","r","c","h","/","c","4","/","s","e","r","v","i","c","e","s">>>>, <<>>, <<<<"a","r","c","h","/","a","d","r">>>>,
                                   <<<<"o","p","e","n","a","p","i">>>>)>>,
                   <<GuideConfig(<<"g">>, <<<<"e","v","a","4">>>>)>>),
            {Node(<<<<"r">>,<<"a","r","c","h">>,<<"c","4">>,<<"c","1",".","m","d","x">>>>, "file", Wide(10)),
             Node(<<<<"r">>,<<"a","l","t">>,<<"c","4">>,<<"c","1",".","m","d","x">>>>, "file", Wide(20)),
             Node(<<<<"r">>,<<"a","r","c","h">>,<<"c","4">>,<<"s","e","r","v","i","c","e","s">>,<<"p","a","y",".","m","d","x">>>>, "file", Wide(30)),
             Node(<<<<"r">>,<<"a","r","c","h">>,<<"c","4">>,<<"p","r","i","v">>>>, "locked", Wide(0)),
             Node(<<<<"r">>,<<"c","o","n","t","e","n","t">>,<<"d","o","c","s">>,<<"b","a","c","k","e","n","d">>,<<"p","h","p">>,<<"a","p","i">>,<<"r","u","l","e","s",".","m","d">>>>, "file", <<0, 0, 1, 0>>),
             Node(<<<<"r">>,<<"a","r","c","h">>,<<"a","d","r">>,<<"0","0","1","-","x",".","m","d","x">>>>, "file", Wide(40))})

\* Two projects and two guides of the same name, with targets that overlap.
RunOverlap ==
    MainRun(Config(<<>>,
                   <<ProjectConfig(<<"p">>, <<<<"a","r","c","h">>>>, <<>>, <<>>, <<<<"a","r","c","h","/","c","4">>>>, <<>>, <<>>,
                                   <<>>),
                     ProjectConfig(<<"p">>, <<<<"a","l","t">>>>, <<>>, <<>>, <<>>, <<>>, <<>>, <<>>)>>,
                   <<GuideConfig(<<"g">>, <<<<"e","v","a","4">>>>), GuideConfig(<<"g">>, <<<<"e","v","a","5">>>>)>>),
            {Node(<<<<"r">>,<<"a","r","c","h">>,<<"c","4">>,<<"c","1",".","m","d","x">>>>, "file", Wide(10)),
             Node(<<<<"r">>,<<"a","l","t">>,<<"c","4">>,<<"c","1",".","m","d","x">>>>, "file", Wide(20)),
             Node(<<<<"r">>,<<"e","v","a","4">>,<<"a",".","r","s","t">>>>, "file", Wide(30)),
             Node(<<<<"r">>,<<"e","v","a","5">>,<<"a",".","r","s","t">>>>, "file", Wide(40))})

\* Typed walks: an OpenAPI area, a missing area, a file given as an area,
\* and an ERD area.
RunTyped ==
    ApiRun(<<ScanCall("scan_documents", DocType("OpenApiSpec", <<"p">>),
                      <<<<"o","p","e","n","a","p","i","-","s","p","e","c">>, <<"m","i","s","s","i","n","g">>, <<"o","p","e","n","a","p","i","-","s","p","e","c","/","p","/","s","/","v","/","p","u","b","/","f",".","y","a","m","l">>>>, <<>>),
             ScanCall("scan_documents", DocType("ErdDiagram", <<"p">>),
                      <<<<"c","o","n","t","e","n","t","/","d","o","c","s","/","a","r","c","h","i","t","e","c","t","u","r","e","/","p">>>>, <<>>)>>,
           {Node(<<<<"r">>,<<"o","p","e","n","a","p","i","-","s","p","e","c">>,<<"p">>,<<"s">>,<<"v">>,<<"p","u","b">>,<<"f",".","y","a","m","l">>>>, "file", Wide(10)),
            Node(<<<<"r">>,<<"o","p","e","n","a","p","i","-","s","p","e","c">>,<<"p">>,<<"x",".","y","a","m","l">>>>, "file", Wide(20)),
            Node(<<<<"r">>,<<"c","o","n","t","e","n","t">>,<<"d","o","c","s">>,<<"a","r","c","h","i","t","e","c","t","u","r","e">>,<<"p">>,<<"e","r","d">>,<<"x",".","m","d","x">>>>, "file", Wide(30)),
            Node(<<<<"r">>,<<"c","o","n","t","e","n","t">>,<<"d","o","c","s">>,<<"a","r","c","h","i","t","e","c","t","u","r","e">>,<<"p">>,<<"e","r","d">>,<<"s","e","r","v","i","c","e","s">>,<<"x",".","m","d","x">>>>, "file", Wide(40)),
            Node(<<<<"r">>,<<"c","o","n","t","e","n","t">>,<<"d","o","c","s">>,<<"a","r","c","h","i","t","e","c","t","u","r","e">>,<<"p">>,<<"e","r","d">>,<<"n","o","t","e","s",".","t","x","t">>>>, "file", Wide(50))})

\* The calls of tests::scan_with_extensions_and_missing_target_does_not_fail,
\* with a target that is neither a file nor a directory, and the agreements.
RunUniversal ==
    ApiRun(<<ScanCall("scan_documents_with_extensions", DocType("C1Diagram", <<"p","r","o","j","-","a">>),
                      <<<<"a","r","c","h","/","c","4">>, <<"m","i","s","s","i","n","g","/","p","a","t","h">>, <<"r","u","n","/","s","o","c","k">>>>, <<<<"p","u","m","l">>, <<"d","o","t">>, <<"m","d","x">>>>),
             ScanCall("scan_documents", DocType("C1Diagram", <<"p","r","o","j","-","a">>),
                      <<<<"c","o","n","t","e","n","t","/","d","o","c","s","/","a","r","c","h","i","t","e","c","t","u","r","e","/","p","r","o","j","-","a","/","c","4">>>>, <<>>),
             ScanCall("scan_documents", Agreements, <<<<"c","o","n","t","e","n","t","/","d","o","c","s","/","b","a","c","k","e","n","d">>>>, <<>>)>>,
           {Node(<<<<"r">>,<<"a","r","c","h">>,<<"c","4">>,<<"c","1",".","p","u","m","l">>>>, "file", Wide(18)),
            Node(<<<<"r">>,<<"a","r","c","h">>,<<"c","4">>,<<"n","o","t","e","s",".","t","x","t">>>>, "file", Wide(5)),
            Node(<<<<"r">>,<<"r","u","n">>,<<"s","o","c","k">>>>, "special", Wide(0)),
            Node(<<<<"r">>,<<"c","o","n","t","e","n","t">>,<<"d","o","c","s">>,<<"a","r","c","h","i","t","e","c","t","u","r","e">>,<<"p","r","o","j","-","a">>,<<"c","4">>,<<"c","1",".","m","d","x">>>>, "file", Wide(30)),
            Node(<<<<"r">>,<<"c","o","n","t","e","n","t">>,<<"d","o","c","s">>,<<"b","a","c","k","e","n","d">>,<<"p","h","p">>,<<"a","p","i">>,<<"r","u","l","e","s",".","m","d">>>>, "file", Wide(40))})

Runs == {RunOneProject, RunOverlap, RunTyped, RunUniversal}

\* The arguments of the requests made while serving.
ServeListArgs ==
    {ListArgs(None, None, None, None, None),
     ListArgs(Some(<<"a","r","c","h","i","t","e","c","t","u","r","e","|","b","a","c","k","e","n","d">>), None, Some(<<"c","1"," ","|"," ","a","p","i">>), Some(Wide(2)),
              Some(Wide(1)))}

ServeUris == {<<"d","o","c","s",":","/","/","a","r","c","h","i","t","e","c","t","u","r","e","/","p","/","c","1",".","m","d","x">>, <<"d","o","c","s",":","/","/","n","o","p","e">>}

ServePaths == {<<"d","o","c","s",":","/","/","a","r","c","h","i","t","e","c","t","u","r","e","/","p","/","c","1",".","m","d","x">>, <<"a","r","c","h","i","t","e","c","t","u","r","e","/","p">>}

ServeProjects == {<<"p">>}

ServeLangs == {<<"p","h","p">>}

Init ==
    /\ \E r \in Runs :
          /\ config = r.config
          /\ calls = r.calls
          /\ \E tree \in SUBSET r.nodes :
                /\ Cardinality(tree) <= MaxFiles
                /\ fs = tree
    /\ ci = FirstCallFrom(1)
    /\ ti = 1
    /\ stack = <<>>
    /\ resources = <<>>
    /\ log = <<>>
    /\ trace = <<>>
    /\ lastIns = <<>>
    /\ phase = IF FirstCallFrom(1) > Len(calls) THEN "scanned" ELSE "scan"
    /\ run = 1
    /\ firstIndex = <<>>
    /\ published = <<>>
    /\ sessions = [s \in SessionIds |-> None]
    /\ resp = [session |-> 0, op |-> "none", args |-> <<>>, result |-> Ok(<<>>)]

Next ==
    \/ StartTarget
    \/ VisitEntry
    \/ Rescan
    \/ Publish
    \/ NewSession
    \/ GetDocsList(ServeListArgs)
    \/ GetResourceContent(ServePaths)
    \/ GetAllAdrDocuments
    \/ GetProjectOverview(ServeProjects)
    \/ GetAgreements(ServeLangs)
    \/ ListResources
    \/ ReadResource(ServeUris)
    \/ Subscribe(ServeUris)
    \/ Unsubscribe(ServeUris)

Spec == Init /\ [][Next]_vars

-----------------------------------------------------------------------------
(* get_docs_list on its own: a new session over an index of up to MaxDocs  *)
(* documents is sent one request, with any filters, page and limit.         *)

\* The most documents of the index queried.
MaxDocs == 3

\* The largest of the small page numbers asked for.
MaxPage == 3

\* The tree the queried index was scanned from.
QueryTree ==
    {Node(<<<<"r">>,<<"c","o","n","t","e","n","t">>,<<"d","o","c","s">>,<<"b","a","c","k","e","n","d">>,<<"p","h","p">>,<<"a","p","i">>,<<"r","u","l","e","s",".","m","d">>>>, "file", Wide(10)),
     Node(<<<<"r">>,<<"c","o","n","t","e","n","t">>,<<"d","o","c","s">>,<<"f","r","o","n","t","e","n","d">>,<<"t","s">>,<<"s","t","y","l","e",".","m","d">>>>, "file", Wide(20)),
     Node(<<<<"r">>,<<"a","r","c","h">>,<<"c","4">>,<<"c","1",".","m","d","x">>>>, "file", Wide(30)),
     Node(<<<<"r">>,<<"a","r","c","h">>,<<"a","d","r">>,<<"0","0","1","-","x",".","m","d","x">>>>, "file", Wide(40)),
     Node(<<<<"r">>,<<"o","p","e","n","a","p","i","-","s","p","e","c">>,<<"p">>,<<"s">>,<<"v">>,<<"p","u","b">>,<<"f",".","y","a","m","l">>>>, "file", Wide(50))}

\* The files of QueryTree with the scan call and target that find them.
QuerySources ==
    {[call |-> ScanCall("scan_documents", Agreements, <<>>, <<>>),
      target |-> <<"c","o","n","t","e","n","t","/","d","o","c","s","/","b","a","c","k","e","n","d">>, path |-> <<"/","r","/","c","o","n","t","e","n","t","/","d","o","c","s","/","b","a","c","k","e","n","d","/","p","h","p","/","a","p","i","/","r","u","l","e","s",".","m","d">>],
     [call |-> ScanCall("scan_documents", Agreements, <<>>, <<>>),
      target |-> <<"c","o","n","t","e","n","t","/","d","o","c","s","/","f","r","o","n","t","e","n","d">>, path |-> <<"/","r","/","c","o","n","t","e","n","t","/","d","o","c","s","/","f","r","o","n","t","e","n","d","/","t","s","/","s","t","y","l","e",".","m","d">>],
     [call |-> ScanCall("scan_documents_with_extensions", DocType("C1Diagram", <<"p">>), <<>>,
                        <<<<"m","d","x">>>>),
      target |-> <<"a","r","c","h","/","c","4">>, path |-> <<"/","r","/","a","r","c","h","/","c","4","/","c","1",".","m","d","x">>],
     [call |-> ScanCall("scan_documents_with_extensions", DocType("AdrDocument", <<"p">>), <<>>,
                        <<<<"m","d","x">>>>),
      target |-> <<"a","r","c","h","/","a","d","r">>, path |-> <<"/","r","/","a","r","c","h","/","a","d","r","/","0","0","1","-","x",".","m","d","x">>],
     [call |-> ScanCall("scan_documents", DocType("OpenApiSpec", <<"p">>), <<>>, <<>>),
      target |-> <<"o","p","e","n","a","p","i","-","s","p","e","c">>, path |-> <<"/","r","/","o","p","e","n","a","p","i","-","s","p","e","c","/","p","/","s","/","v","/","p","u","b","/","f",".","y","a","m","l">>]}

\* The index after the files of sources are processed, in any order (their
\* URIs differ).
RECURSIVE IndexOf(_)
IndexOf(sources) ==
    IF sources = {} THEN <<>>
    ELSE CHOOSE map \in {VisitFile(src.call, src.target, <<>>, src.path, rest).resources :
                            src \in {CHOOSE src \in sources : TRUE},
                            rest \in {IndexOf(sources \ {CHOOSE src \in sources : TRUE})}} : TRUE

Filter(area, lang, category) == [area |-> area, lang |-> lang, category |-> category]

\* The filters asked for: absent, one value, several, padded, empty, unknown.
QueryFilters ==
    {Filter(None, None, None),
     Filter(Some(<<"b","a","c","k","e","n","d">>), None, None),
     Filter(Some(<<"b","a","c","k","e","n","d","|","a","r","c","h","i","t","e","c","t","u","r","e">>), None, None),
     Filter(Some(<<" ","b","a","c","k","e","n","d"," ","|"," ","f","r","o","n","t","e","n","d"," ">>), None, None),
     Filter(Some(<<"B","a","c","k","e","n","d">>), None, None),
     Filter(Some(<<>>), None, None),
     Filter(None, Some(<<"p","h","p","|","g","o">>), None),
     Filter(None, Some(<<" ","t","s">>), None),
     Filter(None, Some(<<>>), None),
     Filter(None, Some(<<"p","h","p","|"," ">>), None),
     Filter(None, None, Some(<<"c","1","|","a","p","i">>)),
     Filter(None, None, Some(<<" ","a","d","r"," ">>)),
     Filter(None, None, Some(<<"a","g","r","e","e","m","e","n","t","s">>)),
     Filter(None, None, Some(<<"|">>)),
     Filter(None, None, Some(<<"A","D","R","-","0","0","1","|","p","u","b">>)),
     Filter(Some(<<"b","a","c","k","e","n","d","|","f","r","o","n","t","e","n","d">>), Some(<<"p","h","p">>), None),
     Filter(Some(<<"a","r","c","h","i","t","e","c","t","u","r","e">>), None, Some(<<"c","1">>)),
     Filter(Some(<<"b","a","c","k","e","n","d">>), Some(<<"p","h","p">>), Some(<<"a","p","i">>)),
     Filter(Some(<<"f","r","o","n","t","e","n","d">>), Some(<<"p","h","p">>), Some(<<"a","g","r","e","e","m","e","n","t","s">>))}

\* 2^31 + 1, the least page whose start index with limit 2 is 2^32
HalfRangePage == <<1, Base \div 2, 0, 0>>

QueryPages == {None, Some(U32Max), Some(HalfRangePage)} \cup {Some(Wide(n)) : n \in 0..MaxPage}

QueryLimits == {None} \cup {Some(Wide(n)) : n \in {0, 1, 2, 200, 201}}

QueryListArgs ==
    {ListArgs(f.area, f.lang, f.category, page, limit) :
        f \in QueryFilters, page \in QueryPages, limit \in QueryLimits}

InitQuery ==
    /\ fs = QueryTree
    /\ config = None
    /\ calls = <<>>
    /\ ci = 1
    /\ ti = 1
    /\ stack = <<>>
    /\ \E sources \in SUBSET QuerySources :
          /\ Cardinality(sources) <= MaxDocs
          /\ resources = IndexOf(sources)
    /\ log = <<>>
    /\ trace = <<>>
    /\ lastIns = <<>>
    /\ phase = "serve"
    /\ run = 1
    /\ firstIndex = <<>>
    /\ published = resources
    /\ sessions = [s \in SessionIds |->
                      IF s = 1 THEN Some(new_with_resources(FileReader, resources)) ELSE None]
    /\ resp = [session |-> 0, op |-> "none", args |-> <<>>, result |-> Ok(<<>>)]

\* The session's first request is a get_docs_list.
NextQuery == resp.op = "none" /\ GetDocsList(QueryListArgs)

SpecQuery == InitQuery /\ [][NextQuery]_vars

-----------------------------------------------------------------------------
(* What the specification says of get_docs_list, stated without the         *)
(* handler's own operators.                                                 *)

\* The substrings of f between two separators (or an end of f): f[a+1..b]
TokenSpans(f) ==
    {span \in (0..Len(f)) \X (0..Len(f)) :
        /\ span[1] <= span[2]
        /\ span[1] = 0 \/ f[span[1]] = "|"
        /\ span[2] = Len(f) \/ f[span[2] + 1] = "|"
        /\ \A k \in (span[1] + 1)..span[2] : f[k] # "|"}

\* t is u without its leading and trailing blanks.
IsStripped(t, u) ==
    \E i \in 1..(Len(u) + 1) : \E j \in (i - 1)..Len(u) :
        /\ t = SubSeq(u, i, j)
        /\ \A k \in 1..(i - 1) : u[k] = " "
        /\ \A k \in (j + 1)..Len(u) : u[k] = " "
        /\ i <= j => u[i] # " " /\ u[j] # " "

\* value is one of the trimmed tokens of the '|'-separated text f.
IsTokenOf(value, f) ==
    \E span \in TokenSpans(f) : IsStripped(value, SubSeq(f, span[1] + 1, span[2]))

\* The three conditions under which a request's filters admit a document.
Admits(args, info) ==
    /\ args.area.some => IsTokenOf(info.area, args.area.v)
    /\ args.lang.some => IsTokenOf(info.lang, args.lang.v)
    /\ args.category.some =>
          \E c \in DOMAIN info.category : IsTokenOf(info.category[c], args.category.v)

\* The documents of the published index that the filters admit, in index order.
Admitted(args) == SelectSeq(BTreeValues(published), LAMBDA info : Admits(args, info))

\* The response in hand answers a get_docs_list request.
ListAnswered == resp.op = "get_docs_list"

ListPage == UnwrapOr(resp.args.page, Wide(1))

ListLimit == UnwrapOr(resp.args.limit, Wide(50))

\* page >= 1 and limit in [1, 200]
ListValid ==
    /\ ListAnswered
    /\ ListPage # Wide(0)
    /\ ListLimit # Wide(0)
    /\ WideCmp(ListLimit, Wide(200)) < 1

\* (page - 1) * limit is at or beyond the number of admitted documents.
ListBeyond ==
    WideCmp(WideMulSmall(WideDec(ListPage), ToNat(ListLimit)).v, Wide(Len(Admitted(resp.args)))) > -1

\* The elements [(page-1)*limit, min(page*limit, total)) of the admitted documents.
ListSlice ==
    IF ListBeyond THEN <<>>
    ELSE SubSeq(Admitted(resp.args),
                (ToNat(ListPage) - 1) * ToNat(ListLimit) + 1,
                Min(ToNat(ListPage) * ToNat(ListLimit), Len(Admitted(resp.args))))

\* C7: for page >= 1 and limit in [1,200], a get_docs_list request whose
\* start index (page-1)*limit is at or beyond the number of matching
\* documents succeeds and returns an empty documents list.
C7_PageBeyondRangeIsEmpty ==
    (ListValid /\ ListBeyond) =>
        /\ resp.result.kind = "ok"
        /\ resp.result.body.documents = <<>>

\* C8: for every valid page and limit, get_docs_list returns total_documents
\* = the number of matching documents, total_pages = the ceiling of
\* total_documents / limit, and documents = the elements at positions
\* [(page-1)*limit, min(page*limit, total)) of the matching documents in
\* ascending URI order.
C8_PaginationTotalsAndSlice ==
    ListValid =>
        /\ resp.result.kind = "ok"
        /\ resp.result.body.total_documents = Wide(Len(Admitted(resp.args)))
        /\ resp.result.body.total_pages =
              Wide((Len(Admitted(resp.args)) + ToNat(ListLimit) - 1) \div ToNat(ListLimit))
        /\ resp.result.body.documents = ListSlice
        /\ \A i, j \in DOMAIN Admitted(resp.args) :
              i < j => StrLess(Admitted(resp.args)[i].uri, Admitted(resp.args)[j].uri)

\* C9: get_docs_list returns a document iff area is absent or the document's
\* area is one of the '|'-separated, trimmed tokens of area, lang likewise,
\* and category is absent or one of the document's category tags is one of
\* its trimmed tokens: the documents returned are admitted, the total counts
\* the admitted documents, and a first page that has room returns them all.
\* matches_filter(v, None) is true for every v.
C9_FilterSemantics ==
    /\ (ListAnswered /\ resp.result.kind = "ok") =>
          /\ \A i \in DOMAIN resp.result.body.documents :
                Admits(resp.args, resp.result.body.documents[i])
          /\ resp.result.body.total_documents = Wide(Len(Admitted(resp.args)))
          /\ (ListPage = Wide(1) /\ ToNat(ListLimit) >= Len(Admitted(resp.args))) =>
                resp.result.body.documents = Admitted(resp.args)
    /\ \A i \in DOMAIN published :
          /\ matches_filter(published[i].value.area, None)
          /\ matches_filter(published[i].value.lang, None)
          /\ matches_category_filter(published[i].value.category, None)

\* A padded area filter returned some of the documents of the index, not all.
C9_Witness ==
    /\ ListAnswered
    /\ resp.result.kind = "ok"
    /\ resp.args.area.some
    /\ resp.args.area.v = <<" ","b","a","c","k","e","n","d"," ","|"," ","f","r","o","n","t","e","n","d"," ">>
    /\ Len(resp.result.body.documents) >= 1
    /\ Len(resp.result.body.documents) < Len(published)

\* C10: get_docs_list with page = 0, limit = 0 or limit > 200 returns an
\* invalid-parameters error and no documents, whatever the index and the
\* filters; with page absent it answers as for page 1, with limit absent as
\* for limit 50 (the slice is that of limit 50 where 50 * (page - 1) fits 32
\* bits).
C10_ParameterValidationAndDefaults ==
    ListAnswered =>
        /\ (\/ resp.args.page.some /\ resp.args.page.v = Wide(0)
            \/ resp.args.limit.some /\ resp.args.limit.v = Wide(0)
            \/ resp.args.limit.some /\ WideCmp(resp.args.limit.v, Wide(200)) = 1) =>
              /\ resp.result.kind = "err"
              /\ resp.result.code = "invalid_params"
        /\ (~resp.args.page.some /\ ListValid) =>
              /\ resp.result.kind = "ok"
              /\ resp.result.body.current_page = Wide(1)
              /\ resp.result.body.documents =
                    SubSeq(Admitted(resp.args), 1,
                           Min(ToNat(ListLimit), Len(Admitted(resp.args))))
        /\ (~resp.args.limit.some /\ resp.result.kind = "ok") =>
              /\ resp.result.body.limit = Wide(50)
              /\ resp.result.body.total_pages = Wide((Len(Admitted(resp.args)) + 49) \div 50)
              /\ FitsU32(WideMulSmall(WideDec(ListPage), 50).v)
                    => resp.result.body.documents = ListSlice

\* A limit above 200 was refused over an index that has documents.
C10_Witness ==
    /\ ListAnswered
    /\ resp.args.limit.some
    /\ WideCmp(resp.args.limit.v, Wide(200)) = 1
    /\ published # <<>>
    /\ resp.result.kind = "err"

-----------------------------------------------------------------------------
(* Claims about the scan, checked under Spec.                               *)

ScanEnded == phase \in {"scanned", "serve"}

\* The files a walk of the target reaches when nothing stops it: the target
\* itself when it is a file, else every regular file below it, for a typed
\* walk through directories the type descends into only.
Reached(call, target) ==
    With(Resolve(PathJoin(DocsRoot, target)),
         LAMBDA c :
            IF ~c.some THEN {}
            ELSE {n \in fs :
                    /\ n.kind = "file"
                    /\ IsSeqPrefix(c.v, n.path)
                    /\ \/ IsUniversal(call)
                       \/ /\ Len(n.path) > Len(c.v)
                          /\ \A i \in (Len(c.v) + 1)..(Len(n.path) - 1) :
                                TypedDescends(call.document_type, n.path[i])})

\* The path text under which the walk of the target meets the file n.
WalkPath(target, n) ==
    With(Resolve(PathJoin(DocsRoot, target)).v,
         LAMBDA c :
            IF n.path = c THEN PathJoin(DocsRoot, target)
            ELSE PathJoin(PathJoin(DocsRoot, target),
                          Join(SubSeq(n.path, Len(c) + 1, Len(n.path)), s_slash)))

\* What the classification of the call makes of the file n of the target.
Classified(call, target, n) ==
    IF IsUniversal(call)
    THEN universal_entry(call.document_type, WalkPath(target, n), target, CallExts(call))
    ELSE structural_entry(call.document_type, WalkPath(target, n))

\* C1: the index holds at most one entry per URI, the entry of a URI is the
\* one inserted last for it, and a step that replaces the entry of a URI
\* raises no error: the replaced entry is gone and the target has not failed.
C1_OneEntryPerUriLastInsertWins ==
    [][/\ \A i, j \in DOMAIN resources' : i < j => resources'[i].key # resources'[j].key
       /\ BTreeKeys(resources') = DOMAIN lastIns'
       /\ \A i \in DOMAIN resources' :
             resources'[i].value = lastIns'[resources'[i].key]
       /\ \A u \in DOMAIN lastIns \cap DOMAIN lastIns' :
             lastIns'[u] # lastIns[u] =>
                /\ BTreeGet(resources', u) = Some(lastIns'[u])
                /\ trace'[Len(trace')].status # "failed"]_vars

\* Two targets inserted different entries for one URI, and the scan ended.
C1_Witness ==
    /\ phase = "scanned"
    /\ \E i, j \in DOMAIN trace :
          /\ i < j
          /\ \E u \in DOMAIN trace[i].ins \cap DOMAIN trace[j].ins :
                /\ trace[i].ins[u] # trace[j].ins[u]
                /\ BTreeGet(resources, u) = Some(trace[j].ins[u])

\* C3: a target that is missing, not a directory or fails does not stop the
\* scan: every target of every call is scanned; a missing target adds
\* nothing; every admitted file of every target that scans is in the index
\* when the scan has ended.
C3_FailingTargetsDoNotStopTheScan ==
    ScanEnded =>
       /\ \A c \in DOMAIN calls : \A t \in DOMAIN calls[c].targets :
             \E i \in DOMAIN trace : trace[i].ci = c /\ trace[i].ti = t
       /\ \A i \in DOMAIN trace :
             /\ trace[i].status = "missing" => DOMAIN trace[i].ins = {}
             /\ trace[i].status = "ok" =>
                   \A n \in Reached(calls[trace[i].ci], calls[trace[i].ci].targets[trace[i].ti]) :
                      With(Classified(calls[trace[i].ci],
                                      calls[trace[i].ci].targets[trace[i].ti], n),
                           LAMBDA e : e.kind = "entry" => e.info.uri \in BTreeKeys(resources))

\* A call whose first target failed, whose second is missing and whose
\* third scanned and put a file into the index.
C3_Witness ==
    /\ phase = "scanned"
    /\ \E i, j, k \in DOMAIN trace :
          /\ trace[i].ci = trace[j].ci /\ trace[j].ci = trace[k].ci
          /\ trace[i].ti < trace[j].ti /\ trace[j].ti < trace[k].ti
          /\ trace[i].status = "failed"
          /\ trace[j].status = "missing"
          /\ trace[k].status = "ok"
          /\ DOMAIN trace[k].ins # {}
          /\ DOMAIN trace[k].ins \subseteq BTreeKeys(resources)

\* The order of the groups of the startup scan: position k holds the type
\* and the targets of the k-th group.
GroupTags ==
    <<"C1Diagram", "C2Diagram", "C3Diagram", "C4Diagram", "ErdDiagram", "AdrDocument",
      "OpenApiSpec">>

GroupTargets(project, tag) ==
    CASE tag = "C1Diagram" -> project.c1
      [] tag = "C2Diagram" -> project.c2
      [] tag = "C3Diagram" -> project.c3
      [] tag = "C4Diagram" -> project.services
      [] tag = "ErdDiagram" -> project.erd
      [] tag = "AdrDocument" -> project.adr
      [] tag = "OpenApiSpec" -> project.openapi

GroupAt(cfg, k) ==
    IF k = 1 THEN [document_type |-> Agreements, targets |-> cfg.agreements]
    ELSE IF k <= 1 + 7 * Len(cfg.projects)
    THEN [document_type |->
              DocType(GroupTags[((k - 2) % 7) + 1], cfg.projects[((k - 2) \div 7) + 1].name),
          targets |->
              GroupTargets(cfg.projects[((k - 2) \div 7) + 1], GroupTags[((k - 2) % 7) + 1])]
    ELSE [document_type |-> DocType("GuideDoc", cfg.guides[k - 1 - 7 * Len(cfg.projects)].name),
          targets |-> cfg.guides[k - 1 - 7 * Len(cfg.projects)].paths]

\* C2: the startup scan processes the agreements, then per project in
\* configuration order C1, C2, C3, C4 services, ERD, ADR, OpenAPI, then the
\* guides; of the groups that produce a URI, the one latest in this order
\* leaves its entry in the index.
C2_LaterGroupWins ==
    (config.some /\ ScanEnded) =>
       /\ Len(calls) = 1 + 7 * Len(config.v.projects) + Len(config.v.guides)
       /\ \A k \in DOMAIN calls :
             /\ calls[k].document_type = GroupAt(config.v, k).document_type
             /\ calls[k].targets = GroupAt(config.v, k).targets
       /\ \A i \in DOMAIN trace : \A u \in DOMAIN trace[i].ins :
             (\A j \in DOMAIN trace : u \in DOMAIN trace[j].ins => trace[j].ci <= trace[i].ci)
                => \E j \in DOMAIN trace :
                      /\ trace[j].ci = trace[i].ci
                      /\ u \in DOMAIN trace[j].ins
                      /\ BTreeGet(resources, u) = Some(trace[j].ins[u])

\* Two groups of the startup scan produced different entries for one URI.
C2_Witness ==
    /\ config.some
    /\ phase = "scanned"
    /\ \E i, j \in DOMAIN trace :
          /\ trace[i].ci < trace[j].ci
          /\ \E u \in DOMAIN trace[i].ins \cap DOMAIN trace[j].ins :
                /\ trace[i].ins[u] # trace[j].ins[u]
                /\ BTreeGet(resources, u) = Some(trace[j].ins[u])

\* C4: when a typed walk meets an admitted file whose path matches no
\* shape, every admitted file of the same area that has a valid shape is in
\* the index when the scan has ended.
C4_InvalidShapeConcernsThatFileOnly ==
    ScanEnded =>
       \A i \in DOMAIN trace :
          With(calls[trace[i].ci],
               LAMBDA call :
          With(calls[trace[i].ci].targets[trace[i].ti],
               LAMBDA area :
                  (/\ ~IsUniversal(call)
                   /\ PathIsDir(PathJoin(DocsRoot, area))
                   /\ \A m \in fs : m.kind # "locked"
                   /\ \E n \in Reached(call, area) : Classified(call, area, n).kind = "err")
                     => \A n \in Reached(call, area) :
                           With(Classified(call, area, n),
                                LAMBDA e : e.kind = "entry"
                                              => e.info.uri \in BTreeKeys(resources))))

\* C5: a second scan of an unchanged tree with the same configuration ends
\* with the index the first scan ended with, into an empty index as well as
\* into the index the first scan filled.
C5_RescanYieldsTheSameIndex ==
    (run = 2 /\ phase = "scanned") => resources = firstIndex

\* C6: while serving, the index is the one the scan produced, and the index
\* of every session is that index, whatever the queries answered so far.
C6_QueriesLeaveTheIndexAlone ==
    phase = "serve" =>
       /\ resources = published
       /\ \A s \in SessionIds : sessions[s].some => sessions[s].v.resources = published

\* The second session answered a query over a scanned index that holds a
\* document, after the first session had answered one.
C6_Witness ==
    /\ phase = "serve"
    /\ published # <<>>
    /\ \A s \in SessionIds : sessions[s].some
    /\ resp.session = MaxSessions
    /\ resp.op # "none"
    /\ resp.result.kind = "ok"
    /\ sessions[resp.session].v.resources = published

-----------------------------------------------------------------------------
(* The walks alone (specification SpecWalk): direct calls of the scanner    *)
(* with targets of every form over small trees, inside and outside the      *)
(* docs root.                                                               *)

\* The most files of a tree of SpecWalk.
MaxWalkFiles == 3

\* Universal walks whose targets hold "..", are absolute, or leave the docs
\* root, and a typed walk of an area given with "..".
RunEscape ==
    ApiRun(<<ScanCall("scan_documents_with_extensions", DocType("C4Diagram", <<"p">>),
                      <<<<"a","r","c","h","/",".",".","/","a","r","c","h">>, <<"/","r","/","a","r","c","h">>, <<".",".","/","o">>, <<"/","o">>>>, <<<<"m","d","x">>>>),
             ScanCall("scan_documents", Agreements, <<<<".",".","/","o">>>>, <<>>),
             ScanCall("scan_documents", DocType("C4Diagram", <<"p">>),
                      <<<<"x","/",".",".","/","c","o","n","t","e","n","t","/","d","o","c","s","/","a","r","c","h","i","t","e","c","t","u","r","e","/","p","/","c","4">>,
                        <<"c","o","n","t","e","n","t","/","d","o","c","s","/","a","r","c","h","i","t","e","c","t","u","r","e","/","p","/","c","4">>>>, <<>>)>>,
           {Node(<<<<"r">>,<<"a","r","c","h">>,<<"a",".","m","d","x">>>>, "file", Wide(10)),
            Node(<<<<"o">>,<<"a",".","m","d","x">>>>, "file", Wide(20)),
            Node(<<<<"r">>,<<"x">>,<<"b",".","m","d","x">>>>, "file", Wide(30)),
            Node(<<<<"r">>,<<"c","o","n","t","e","n","t">>,<<"d","o","c","s">>,<<"a","r","c","h","i","t","e","c","t","u","r","e">>,<<"p">>,<<"c","4">>,<<"a",".","m","d","x">>>>, "file", Wide(40))})

\* Universal walks of a directory, of the same directory with a trailing
\* slash, and of a single file.
RunSubpath ==
    ApiRun(<<ScanCall("scan_documents_with_extensions", DocType("C1Diagram", <<"p","r","o","j","-","a">>),
                      <<<<"a","r","c","h","/","c","4">>, <<"a","r","c","h","/","c","4","/">>, <<"a","r","c","h","/","c","4","/","c","1",".","p","u","m","l">>>>,
                      <<<<"p","u","m","l">>, <<"d","o","t">>, <<"m","d","x">>>>),
             ScanCall("scan_documents_with_extensions", DocType("GuideDoc", <<"e","v","a","4">>),
                      <<<<"e","v","a","4">>, <<"e","v","a","4","/","s","v","c","/","e","v","a","-","r","e","p","l",".","r","s","t">>>>, <<<<"r","s","t">>>>)>>,
           {Node(<<<<"r">>,<<"a","r","c","h">>,<<"c","4">>,<<"c","1",".","p","u","m","l">>>>, "file", Wide(18)),
            Node(<<<<"r">>,<<"a","r","c","h">>,<<"c","4">>,<<"s","u","b">>,<<"c","1",".","p","u","m","l">>>>, "file", Wide(19)),
            Node(<<<<"r">>,<<"e","v","a","4">>,<<"s","v","c">>,<<"e","v","a","-","r","e","p","l",".","r","s","t">>>>, "file", Wide(44))})

\* Typed walks of C1, C3 and C4 areas that hold subdirectories, outside and
\* inside content/docs.
RunPrune ==
    ApiRun(<<ScanCall("scan_documents", DocType("C1Diagram", <<"p">>),
                      <<<<"a","r","c","h","/","c","4">>, <<"c","o","n","t","e","n","t","/","d","o","c","s","/","a","r","c","h","i","t","e","c","t","u","r","e","/","p","/","c","4">>>>, <<>>),
             ScanCall("scan_documents", DocType("C3Diagram", <<"p">>),
                      <<<<"c","o","n","t","e","n","t","/","d","o","c","s","/","a","r","c","h","i","t","e","c","t","u","r","e","/","p","/","c","4">>>>, <<>>),
             ScanCall("scan_documents", DocType("C4Diagram", <<"p">>),
                      <<<<"a","r","c","h">>, <<"c","o","n","t","e","n","t","/","d","o","c","s","/","a","r","c","h","i","t","e","c","t","u","r","e","/","p","/","c","4">>>>, <<>>)>>,
           {Node(<<<<"r">>,<<"a","r","c","h">>,<<"c","4">>,<<"c","1",".","m","d","x">>>>, "file", Wide(10)),
            Node(<<<<"r">>,<<"a","r","c","h">>,<<"c","4">>,<<"s","u","b">>,<<"c","1",".","m","d","x">>>>, "file", Wide(11)),
            Node(<<<<"r">>,<<"a","r","c","h">>,<<"c","4">>,<<"s","e","r","v","i","c","e","s">>,<<"p","a","y",".","m","d","x">>>>, "file", Wide(12)),
            Node(<<<<"r">>,<<"a","r","c","h">>,<<"o","t","h","e","r">>,<<"p","a","y",".","m","d","x">>>>, "file", Wide(13)),
            Node(<<<<"r">>,<<"c","o","n","t","e","n","t">>,<<"d","o","c","s">>,<<"a","r","c","h","i","t","e","c","t","u","r","e">>,<<"p">>,<<"c","4">>,<<"c","1",".","m","d","x">>>>, "file", Wide(20)),
            Node(<<<<"r">>,<<"c","o","n","t","e","n","t">>,<<"d","o","c","s">>,<<"a","r","c","h","i","t","e","c","t","u","r","e">>,<<"p">>,<<"c","4">>,<<"s","u","b">>,<<"c","1",".","m","d","x">>>>, "file", Wide(21)),
            Node(<<<<"r">>,<<"c","o","n","t","e","n","t">>,<<"d","o","c","s">>,<<"a","r","c","h","i","t","e","c","t","u","r","e">>,<<"p">>,<<"c","4">>,<<"s","u","b">>,<<"c","3",".","m","d","x">>>>, "file", Wide(22)),
            Node(<<<<"r">>,<<"c","o","n","t","e","n","t">>,<<"d","o","c","s">>,<<"a","r","c","h","i","t","e","c","t","u","r","e">>,<<"p">>,<<"c","4">>,<<"s","e","r","v","i","c","e","s">>,<<"p","a","y",".","m","d","x">>>>, "file", Wide(23)),
            Node(<<<<"r">>,<<"c","o","n","t","e","n","t">>,<<"d","o","c","s">>,<<"a","r","c","h","i","t","e","c","t","u","r","e">>,<<"p">>,<<"c","4">>,<<"o","t","h","e","r">>,<<"p","a","y",".","m","d","x">>>>, "file", Wide(24))})

WalkRuns == {RunEscape, RunSubpath, RunPrune, RunTyped, RunUniversal}

InitWalk ==
    /\ \E r \in WalkRuns :
          /\ config = r.config
          /\ calls = r.calls
          /\ \E tree \in SUBSET r.nodes :
                /\ Cardinality(tree) <= MaxWalkFiles
                /\ fs = tree
    /\ ci = FirstCallFrom(1)
    /\ ti = 1
    /\ stack = <<>>
    /\ resources = <<>>
    /\ log = <<>>
    /\ trace = <<>>
    /\ lastIns = <<>>
    /\ phase = IF FirstCallFrom(1) > Len(calls) THEN "scanned" ELSE "scan"
    /\ run = 1
    /\ firstIndex = <<>>
    /\ published = <<>>
    /\ sessions = [s \in SessionIds |-> None]
    /\ resp = [session |-> 0, op |-> "none", args |-> <<>>, result |-> Ok(<<>>)]

NextWalk ==
    \/ StartTarget
    \/ VisitEntry

SpecWalk == InitWalk /\ [][NextWalk]_vars

\* C11: every index entry has a file_path that is relative, holds no ".."
\* segment and names a regular file inside the docs root.
C11_FilePathStaysInsideTheRoot ==
    \A i \in DOMAIN resources :
       With(resources[i].value.file_path,
            LAMBDA file_path :
               /\ ~IsAbsolute(file_path)
               /\ \A k \in DOMAIN Split(file_path, "/") : Split(file_path, "/")[k] # s_dotdot
               /\ With(Resolve(PathJoin(DocsRoot, file_path)),
                       LAMBDA r : /\ r.some
                                  /\ IsFileAt(r.v)
                                  /\ IsSeqPrefix(Components(DocsRoot), r.v)))

\* The path of the file n relative to the scan target: the segments below
\* the target directory, or the file name when the target is the file.
RelativeToTarget(target, n) ==
    With(Resolve(PathJoin(DocsRoot, target)).v,
         LAMBDA c :
            IF n.path = c THEN n.path[Len(n.path)]
            ELSE Join(SubSeq(n.path, Len(c) + 1, Len(n.path)), s_slash))

\* C12: every file of a type other than Agreements that a universal walk
\* indexes has the URI made of the type's URI prefix and the file's path
\* relative to the scan target, whatever the form of the target.
C12_UniversalUriIsPrefixPlusSubpath ==
    \A i \in DOMAIN trace :
       With(calls[trace[i].ci],
            LAMBDA call :
       With(calls[trace[i].ci].targets[trace[i].ti],
            LAMBDA target :
               (IsUniversal(call) /\ call.document_type.tag # "Agreements")
                  => \A n \in Reached(call, target) :
                        With(Classified(call, target, n),
                             LAMBDA e :
                                (e.kind = "entry" /\ e.info.uri \in DOMAIN trace[i].ins)
                                   => e.info.uri = get_uri_prefix(call.document_type)
                                                      \o RelativeToTarget(target, n))))

\* The regular files directly in the directory the area names.
DirectChildren(area) ==
    With(Resolve(PathJoin(DocsRoot, area)),
         LAMBDA c :
            IF ~c.some THEN {}
            ELSE {n \in fs : /\ n.kind = "file"
                             /\ Len(n.path) = Len(c.v) + 1
                             /\ IsSeqPrefix(c.v, n.path)})

\* The path of the file n below the docs root, as text.
RootRelative(n) ==
    Join(SubSeq(n.path, Len(Components(DocsRoot)) + 1, Len(n.path)), s_slash)

IsC123(document_type) == document_type.tag \in {"C1Diagram", "C2Diagram", "C3Diagram"}

ViaServices(area) ==
    With(Resolve(PathJoin(DocsRoot, area)),
         LAMBDA c :
            IF ~c.some THEN {}
            ELSE {n \in fs : /\ n.kind = "file"
                             /\ Len(n.path) > Len(c.v)
                             /\ IsSeqPrefix(c.v, n.path)
                             /\ \A k \in (Len(c.v) + 1)..(Len(n.path) - 1) :
                                   n.path[k] = s_services})

\* The .mdx files below the area whose directory is named "services".
InServices(area) ==
    With(Resolve(PathJoin(DocsRoot, area)),
         LAMBDA c :
            IF ~c.some THEN {}
            ELSE {n \in fs : /\ n.kind = "file"
                             /\ Len(n.path) > Len(c.v) + 1
                             /\ IsSeqPrefix(c.v, n.path)
                             /\ n.path[Len(n.path) - 1] = s_services
                             /\ EndsWith(n.path[Len(n.path)], s_dot_mdx)})

\* C14 (as found in the code): a typed scan for C4Diagram enters only
\* directories named "services": every entry it inserts comes from a file
\* reached through such directories only, the .mdx files directly in the
\* area included, and when the area scans without error every such file of
\* valid shape is indexed (area content/docs/architecture/p/c4 with c1.mdx,
\* services/pay.mdx and other/pay.mdx: c1.mdx and services/pay.mdx).
C14_TypedC4ScanEntersServicesOnly ==
    \A i \in DOMAIN trace :
       With(calls[trace[i].ci],
            LAMBDA call :
       With(calls[trace[i].ci].targets[trace[i].ti],
            LAMBDA area :
               (~IsUniversal(call) /\ call.document_type.tag = "C4Diagram")
                  => /\ \A u \in DOMAIN trace[i].ins :
                           \E n \in ViaServices(area) :
                              trace[i].ins[u].file_path = RootRelative(n)
                     /\ trace[i].status = "ok"
                           => \A n \in ViaServices(area) :
                                 With(structural_entry(call.document_type, WalkPath(area, n)),
                                      LAMBDA e : e.kind = "entry"
                                                    => e.info.uri \in DOMAIN trace[i].ins)))

\* A typed C4 scan ended without error over an area that holds c1.mdx,
\* services/pay.mdx and other/pay.mdx, and left two entries.
C14_Witness ==
    \E i \in DOMAIN trace :
       /\ ~IsUniversal(calls[trace[i].ci])
       /\ calls[trace[i].ci].document_type.tag = "C4Diagram"
       /\ trace[i].status = "ok"
       /\ Cardinality(DOMAIN trace[i].ins) = 2
       /\ InServices(calls[trace[i].ci].targets[trace[i].ti]) # {}
       /\ DirectChildren(calls[trace[i].ci].targets[trace[i].ti]) # {}
       /\ \E n \in fs : Len(n.path) > 2 /\ n.path[Len(n.path) - 1] = <<"o","t","h","e","r">>

\* C14 as stated: whenever a typed scan for C4Diagram has ended on an area
\* that holds .mdx files in a directory named "services" (arch with
\* c4/c1.mdx, c4/services/pay.mdx and other/pay.mdx), the entries it leaves
\* are exactly those of these files.
C14_AsStated ==
    \A i \in DOMAIN trace :
       With(calls[trace[i].ci],
            LAMBDA call :
       With(calls[trace[i].ci].targets[trace[i].ti],
            LAMBDA area :
               (/\ ~IsUniversal(call)
                /\ call.document_type.tag = "C4Diagram"
                /\ trace[i].status # "running"
                /\ InServices(area) # {})
                  => {trace[i].ins[u].file_path : u \in DOMAIN trace[i].ins}
                        = {RootRelative(n) : n \in InServices(area)}))

\* C15: every entry of the index, and every entry a scan target ever
\* inserted, whichever strategy and document type produced it, carries at
\* least one category tag.
C15_EveryEntryHasACategory ==
    /\ \A i \in DOMAIN resources : resources[i].value.category # <<>>
    /\ \A i \in DOMAIN trace :
          \A u \in DOMAIN trace[i].ins : trace[i].ins[u].category # <<>>

\* The index holds an entry while, in the same run, a typed target and a
\* universal target have each inserted one.
C15_Witness ==
    /\ resources # <<>>
    /\ \E i \in DOMAIN trace :
          IsUniversal(calls[trace[i].ci]) /\ DOMAIN trace[i].ins # {}
    /\ \E i \in DOMAIN trace :
          ~IsUniversal(calls[trace[i].ci]) /\ DOMAIN trace[i].ins # {}

-----------------------------------------------------------------------------
(* The views of a served index: a session whose index holds up to          *)
(* MaxViewDocs documents is sent one request for content, a subscription,  *)
(* the ADR list, a project overview or the agreements of a language.       *)

\* The most documents of the index viewed.
MaxViewDocs == 3

\* The tree the viewed index was scanned from.
ViewTree ==
    {Node(<<<<"r">>,<<"c","o","n","t","e","n","t">>,<<"d","o","c","s">>,<<"b","a","c","k","e","n","d">>,<<"p","h","p">>,<<"a","g","r","e","e","m","e","n","t","s">>,<<"x",".","m","d">>>>, "file", Wide(20)),
     Node(<<<<"r">>,<<"c","o","n","t","e","n","t">>,<<"d","o","c","s">>,<<"b","a","c","k","e","n","d">>,<<"p","h","p">>,<<"a","p","i">>,<<"d",".","m","d","x">>>>, "file", Wide(30)),
     Node(<<<<"r">>,<<"a","r","c","h">>,<<"a","d","r">>,<<"0","1","0","-","a",".","m","d","x">>>>, "file", Wide(40)),
     Node(<<<<"r">>,<<"a","r","c","h">>,<<"a","d","r">>,<<"2","-","b",".","m","d","x">>>>, "file", Wide(50)),
     Node(<<<<"r">>,<<"a","r","c","h">>,<<"a","d","r">>,<<"0","0","2","-","c",".","m","d","x">>>>, "file", Wide(60)),
     Node(<<<<"r">>,<<"a","r","c","h">>,<<"a","d","r">>,<<"x","-","y",".","m","d","x">>>>, "file", Wide(70)),
     Node(<<<<"r">>,<<"a","r","c","h">>,<<"a","d","r">>,<<"4","2","9","4","9","6","7","2","9","6","-","z",".","m","d","x">>>>, "file", Wide(80)),
     Node(<<<<"r">>,<<"a","r","c","h">>,<<"c","4">>,<<"c","1",".","m","d","x">>>>, "file", U32Max)}

ViewSource(call, target, path) == [call |-> call, target |-> target, path |-> path]

AdrCall == ScanCall("scan_documents_with_extensions", DocType("AdrDocument", <<"p">>), <<>>, <<<<"m","d","x">>>>)

\* The files of ViewTree with the scan call and target that find them.
ViewSources ==
    {ViewSource(ScanCall("scan_documents", Agreements, <<>>, <<>>), <<"c","o","n","t","e","n","t","/","d","o","c","s","/","b","a","c","k","e","n","d">>,
                <<"/","r","/","c","o","n","t","e","n","t","/","d","o","c","s","/","b","a","c","k","e","n","d","/","p","h","p","/","a","g","r","e","e","m","e","n","t","s","/","x",".","m","d">>),
     ViewSource(ScanCall("scan_documents", DocType("C4Diagram", <<"p">>), <<>>, <<>>),
                <<"c","o","n","t","e","n","t","/","d","o","c","s","/","b","a","c","k","e","n","d">>, <<"/","r","/","c","o","n","t","e","n","t","/","d","o","c","s","/","b","a","c","k","e","n","d","/","p","h","p","/","a","p","i","/","d",".","m","d","x">>),
     ViewSource(AdrCall, <<"a","r","c","h","/","a","d","r">>, <<"/","r","/","a","r","c","h","/","a","d","r","/","0","1","0","-","a",".","m","d","x">>),
     ViewSource(AdrCall, <<"a","r","c","h","/","a","d","r">>, <<"/","r","/","a","r","c","h","/","a","d","r","/","2","-","b",".","m","d","x">>),
     ViewSource(AdrCall, <<"a","r","c","h","/","a","d","r">>, <<"/","r","/","a","r","c","h","/","a","d","r","/","0","0","2","-","c",".","m","d","x">>),
     ViewSource(AdrCall, <<"a","r","c","h","/","a","d","r">>, <<"/","r","/","a","r","c","h","/","a","d","r","/","x","-","y",".","m","d","x">>),
     ViewSource(AdrCall, <<"a","r","c","h","/","a","d","r">>, <<"/","r","/","a","r","c","h","/","a","d","r","/","4","2","9","4","9","6","7","2","9","6","-","z",".","m","d","x">>),
     ViewSource(ScanCall("scan_documents_with_extensions", DocType("C1Diagram", <<"p">>), <<>>,
                         <<<<"m","d","x">>>>),
                <<"a","r","c","h","/","c","4">>, <<"/","r","/","a","r","c","h","/","c","4","/","c","1",".","m","d","x">>)}

\* The URIs asked for: of documents that may be in the index, and of none.
ViewUris ==
    {<<"d","o","c","s",":","/","/","a","r","c","h","i","t","e","c","t","u","r","e","/","p","/","c","1",".","m","d","x">>, <<"d","o","c","s",":","/","/","a","g","r","e","e","m","e","n","t","s","/","b","a","c","k","e","n","d","/","p","h","p","/","a","g","r","e","e","m","e","n","t","s","/","x",".","m","d">>,
     <<"d","o","c","s",":","/","/","n","o","p","e">>}

\* The paths get_resource_content is asked for: the URIs, and paths without
\* the scheme.
ViewPaths == ViewUris \cup {<<"a","r","c","h","i","t","e","c","t","u","r","e","/","p","/","c","1",".","m","d","x">>, <<>>}

ViewProjects == {<<"p">>, <<"n","o","p","e">>, <<>>}

ViewLangs == {<<"p","h","p">>, <<"g","o">>, <<>>}

InitViews ==
    /\ fs = ViewTree
    /\ config = None
    /\ calls = <<>>
    /\ ci = 1
    /\ ti = 1
    /\ stack = <<>>
    /\ \E sources \in SUBSET ViewSources :
          /\ Cardinality(sources) <= MaxViewDocs
          /\ resources = IndexOf(sources)
    /\ log = <<>>
    /\ trace = <<>>
    /\ lastIns = <<>>
    /\ phase = "serve"
    /\ run = 1
    /\ firstIndex = <<>>
    /\ published = resources
    /\ sessions = [s \in SessionIds |->
                      IF s = 1 THEN Some(new_with_resources(FileReader, resources)) ELSE None]
    /\ resp = [session |-> 0, op |-> "none", args |-> <<>>, result |-> Ok(<<>>)]

\* The session's first request is one of the views.
NextViews ==
    \/ resp.op = "none" /\ GetResourceContent(ViewPaths)
    \/ resp.op = "none" /\ ReadResource(ViewUris)
    \/ resp.op = "none" /\ Subscribe(ViewUris)
    \/ resp.op = "none" /\ GetAllAdrDocuments
    \/ resp.op = "none" /\ GetProjectOverview(ViewProjects)
    \/ resp.op = "none" /\ GetAgreements(ViewLangs)

SpecViews == InitViews /\ [][NextViews]_vars

-----------------------------------------------------------------------------
(* What the specification says of the views, stated on the index the       *)
(* sessions were given.                                                     *)

InIndex(uri) == \E i \in DOMAIN published : published[i].key = uri

EntryOf(uri) == published[CHOOSE i \in DOMAIN published : published[i].key = uri].value

\* The file of the docs root a root-relative path names.
NamedBy(file_path) == Components(DocsRoot) \o Split(file_path, "/")

\* C16: get_resource_content with a path that does not start with docs://
\* is refused as invalid parameters whatever the index holds;
\* get_resource_content, read_resource and subscribe with a URI that is not
\* a key of the index are refused as resource-not-found, so none of them
\* succeeds for such a URI; for a key of the index the content returned is
\* that of the file the entry's file_path names.
C16_ContentResolutionGoesThroughTheIndex ==
    /\ (resp.op = "get_resource_content" /\ ~StartsWith(resp.args, s_docs_scheme))
          => resp.result = Err("invalid_params", "invalid_path")
    /\ (/\ resp.op \in {"get_resource_content", "read_resource", "subscribe"}
        /\ resp.op = "get_resource_content" => StartsWith(resp.args, s_docs_scheme)
        /\ ~InIndex(resp.args))
          => resp.result = Err("resource_not_found", "resource_not_found")
    /\ (resp.op = "get_resource_content" /\ InIndex(resp.args))
          => /\ resp.result.kind = "ok"
             /\ resp.result.body = NamedBy(EntryOf(resp.args).file_path)
             /\ IsFileAt(resp.result.body)
    /\ (resp.op = "read_resource" /\ InIndex(resp.args))
          => /\ resp.result.kind = "ok"
             /\ resp.result.body.text = NamedBy(EntryOf(resp.args).file_path)
             /\ resp.result.body.uri = resp.args
             /\ IsFileAt(resp.result.body.text)
    /\ (resp.op = "subscribe" /\ InIndex(resp.args)) => resp.result.kind = "ok"

\* get_resource_content has returned the content of an indexed document
\* whose URI and file_path differ.
C16_Witness ==
    /\ resp.op = "get_resource_content"
    /\ resp.result.kind = "ok"
    /\ InIndex(resp.args)
    /\ resp.result.body = <<<<"r">>,<<"a","r","c","h">>,<<"c","4">>,<<"c","1",".","m","d","x">>>>
    /\ Len(published) > 1

\* The number of a document for the ADR list: the value of the suffix of its
\* first ADR- category when that suffix is a decimal number of 32 bits, 0
\* when it is not one or no category starts with ADR-.
AdrSuffixNumber(info) ==
    With({i \in DOMAIN info.category : StartsWith(info.category[i], s_adr_prefix)},
         LAMBDA tagged :
            IF tagged = {} THEN Wide(0)
            ELSE With(ParseU32(SubSeq(info.category[SetMin(tagged)], Len(s_adr_prefix) + 1,
                                      Len(info.category[SetMin(tagged)]))),
                      LAMBDA number : IF number.some THEN number.v ELSE Wide(0)))

HasAdrCategory(info) == \E i \in DOMAIN info.category : StartsWith(info.category[i], s_adr_prefix)

OfProject(project) == SelectSeq(BTreeValues(published), LAMBDA info : info.project = project)

Occurrences(docs, d) == Cardinality({i \in DOMAIN docs : docs[i] = d})

\* The sum over docs of limb k of their sizes.
RECURSIVE LimbSum(_, _)
LimbSum(docs, k) == IF docs = <<>> THEN 0 ELSE Head(docs).size[k] + LimbSum(Tail(docs), k)

\* Whether total is the exact sum of the sizes of docs, limb by limb with
\* carries.
IsExactSum(total, docs) ==
    /\ total[1] = LimbSum(docs, 1) % Base
    /\ total[2] = (LimbSum(docs, 2) + (LimbSum(docs, 1) \div Base)) % Base
    /\ total[3] = (LimbSum(docs, 3)
                      + ((LimbSum(docs, 2) + (LimbSum(docs, 1) \div Base)) \div Base)) % Base
    /\ total[4] = 0

\* Whether every document of docs is once in the bucket of each of its keys
\* and in no other bucket of groups.
GroupedOnce(groups, docs, KeysOf(_)) ==
    \A i \in DOMAIN docs :
       /\ \A key \in KeysOf(docs[i]) :
             key \in DOMAIN groups /\ Occurrences(groups[key], docs[i]) = 1
       /\ \A key \in DOMAIN groups :
             key \notin KeysOf(docs[i]) => Occurrences(groups[key], docs[i]) = 0

CategoryTags(info) == {info.category[i] : i \in DOMAIN info.category}

AreaKey(info) == {info.area}

LanguageKey(info) == {IF info.lang = <<>> THEN s_none ELSE info.lang}

\* C18: get_project_overview answers not-found exactly when no entry of the
\* index has the project asked for; otherwise all_documents is the entries
\* with that project, total_documents their count, total_size the exact sum
\* of their sizes, and every document is once in documents_by_area under its
\* area, once in documents_by_language under its language (none when that
\* is empty) and once in documents_by_type under each of its category tags.
C18_ProjectOverviewCountsEachDocumentOnce ==
    resp.op = "get_project_overview" =>
       With(OfProject(resp.args),
            LAMBDA docs :
               /\ (resp.result.kind = "err") <=> (docs = <<>>)
               /\ resp.result.kind = "err"
                     => resp.result = Err("resource_not_found", "project_not_found")
               /\ docs # <<>>
                     => /\ resp.result.kind = "ok"
                        /\ resp.result.body.all_documents = docs
                        /\ resp.result.body.total_documents = Wide(Len(docs))
                        /\ IsExactSum(resp.result.body.total_size, docs)
                        /\ GroupedOnce(resp.result.body.documents_by_area, docs, AreaKey)
                        /\ GroupedOnce(resp.result.body.documents_by_language, docs, LanguageKey)
                        /\ GroupedOnce(resp.result.body.documents_by_type, docs, CategoryTags))

\* C19: get_agreements(lang) succeeds with exactly the entries of the index
\* whose language is lang and whose categories include agreements, in index
\* order, and total_agreements is their count; with no such entry the list
\* is empty and the total 0.
C19_AgreementsOfALanguage ==
    resp.op = "get_agreements" =>
       /\ resp.result.kind = "ok"
       /\ resp.result.body.lang = resp.args
       /\ With({i \in DOMAIN published :
                   /\ published[i].value.lang = resp.args
                   /\ s_agreements \in CategoryTags(published[i].value)},
               LAMBDA hits :
                  /\ Len(resp.result.body.agreements) = Cardinality(hits)
                  /\ {resp.result.body.agreements[k] : k \in DOMAIN resp.result.body.agreements}
                        = {published[i].value : i \in hits}
                  /\ resp.result.body.total_agreements = Wide(Cardinality(hits))
                  /\ hits = {} => resp.result.body.agreements = <<>>)

\* get_agreements has answered with one agreement from an index that holds
\* another document of the same language.
C19_Witness ==
    /\ resp.op = "get_agreements"
    /\ resp.result.kind = "ok"
    /\ Len(resp.result.body.agreements) = 1
    /\ \E i \in DOMAIN published :
          /\ published[i].value.lang = resp.args
          /\ s_agreements \notin CategoryTags(published[i].value)

-----------------------------------------------------------------------------
(* The allow-list policy: should_process_file_with_extensions is asked     *)
(* about one file name, for one document type and one list of extensions.  *)

PolicyTypes ==
    {DocType(tag, <<"p">>) : tag \in {"C1Diagram", "C2Diagram", "C3Diagram", "C4Diagram",
                                   "ErdDiagram", "AdrDocument", "OpenApiSpec", "GuideDoc"}}
       \cup {Agreements}

PolicyFiles ==
    {<<"c","1",".","p","u","m","l">>, <<"c","1",".","P","U","M","L">>, <<"c","2",".","m","d","x">>, <<"c","3",".","d","o","t">>, <<"p","a","y",".","p","u","m","l">>, <<"a","p","i",".","y","a","m","l">>, <<"n","o","t","e","s",".","t","x","t">>,
     <<"R","E","A","D","M","E">>, <<"c","1",".","m","d","x">>, <<"c","3",".","m","d","x">>, <<"o","t","h","e","r",".","m","d","x">>, <<"p","a","y",".","M","d","X">>, <<"a","p","i",".","Y","A","M","L">>, <<"n","o","t","e","s",".","M","D">>}

\* Lists as a caller of scan_documents_with_extensions may pass them: empty,
\* normalised, in upper case, with a leading dot.
PolicyLists ==
    {<<>>, <<<<"p","u","m","l">>>>, <<<<"P","U","M","L">>>>, <<<<".","p","u","m","l">>>>, <<<<"m","d","x">>, <<"y","a","m","l">>>>, <<<<"d","o","t">>, <<"p","u","m","l">>>>,
     <<<<"t","x","t">>>>}

PolicyArgs(document_type, filename, allowed_extensions) ==
    [document_type |-> document_type, filename |-> filename,
     allowed_extensions |-> allowed_extensions]

InitPolicy ==
    /\ fs = {}
    /\ config = None
    /\ calls = <<>>
    /\ ci = 1
    /\ ti = 1
    /\ stack = <<>>
    /\ resources = <<>>
    /\ log = <<>>
    /\ trace = <<>>
    /\ lastIns = <<>>
    /\ phase = "scan"
    /\ run = 1
    /\ firstIndex = <<>>
    /\ published = <<>>
    /\ sessions = [s \in SessionIds |-> None]
    /\ \E document_type \in PolicyTypes, filename \in PolicyFiles,
          allowed_extensions \in PolicyLists :
          resp = [session |-> 0, op |-> "none",
                  args |-> PolicyArgs(document_type, filename, allowed_extensions),
                  result |-> Ok(<<>>)]

\* The policy is applied to the arguments drawn.
ShouldProcessFileWithExtensions ==
    /\ resp.op = "none"
    /\ resp' = [resp EXCEPT
                   !.op = "should_process_file_with_extensions",
                   !.result = Ok(should_process_file_with_extensions(
                                    resp.args.document_type, resp.args.filename,
                                    resp.args.allowed_extensions))]
    /\ UNCHANGED <<fs, config, calls, ci, ti, stack, resources, log, trace, lastIns, phase, run,
                   firstIndex, published, sessions>>

\* The strict policy is applied to the type and file name drawn.
ShouldProcessFile ==
    /\ resp.op = "none"
    /\ resp' = [resp EXCEPT
                   !.op = "should_process_file",
                   !.result = Ok(should_process_file(resp.args.document_type,
                                                     resp.args.filename))]
    /\ UNCHANGED <<fs, config, calls, ci, ti, stack, resources, log, trace, lastIns, phase, run,
                   firstIndex, published, sessions>>

NextPolicy ==
    \/ ShouldProcessFileWithExtensions
    \/ ShouldProcessFile

SpecPolicy == InitPolicy /\ [][NextPolicy]_vars

\* An extension or a list entry without one leading dot, in lower case.
Bare(e) == ToAsciiLowercase(IF e # <<>> /\ Head(e) = "." THEN Tail(e) ELSE e)

\* Whether the extension of filename is admitted by the list.
PassesExtensionCheck(filename, allowed_extensions) ==
    \/ allowed_extensions = <<>>
    \/ \E i \in DOMAIN allowed_extensions :
          Bare(allowed_extensions[i]) = Bare(UnwrapOr(Extension(filename), <<>>))

PolicyAdmits(document_type, filename, allowed_extensions) ==
    CASE document_type.tag \in {"C1Diagram", "C2Diagram", "C3Diagram"} ->
            /\ FileStem(filename)
                  = Some(CASE document_type.tag = "C1Diagram" -> <<"c","1">>
                           [] document_type.tag = "C2Diagram" -> <<"c","2">>
                           [] document_type.tag = "C3Diagram" -> <<"c","3">>)
            /\ PassesExtensionCheck(filename, allowed_extensions)
      [] document_type.tag = "Agreements" ->
            Bare(UnwrapOr(Extension(filename), <<>>)) \in {<<"m","d">>, <<"m","d","x">>, <<"t","x","t">>}
      [] OTHER -> PassesExtensionCheck(filename, allowed_extensions)

\* C20: should_process_file_with_extensions admits a file exactly when its
\* extension, without a leading dot and in lower case, equals an entry of
\* the list taken the same way, or the list is empty; for C1, C2 and C3 the
\* stem must be c1, c2 or c3 as well; for Agreements the list is ignored and
\* the extension must be md, mdx or txt.
C20_AllowListComparesNormalisedExtensions ==
    resp.op = "should_process_file_with_extensions" =>
       resp.result.body = PolicyAdmits(resp.args.document_type, resp.args.filename,
                                       resp.args.allowed_extensions)

\* The stem a C1, C2 or C3 diagram file must have.
StemOf(document_type) ==
    CASE document_type.tag = "C1Diagram" -> <<"c","1">>
      [] document_type.tag = "C2Diagram" -> <<"c","2">>
      [] document_type.tag = "C3Diagram" -> <<"c","3">>

StrictAsked(tags) == resp.op = "should_process_file" /\ resp.args.document_type.tag \in tags

\* C21 (as found in the code): should_process_file admits a file name for
\* C1Diagram, C2Diagram or C3Diagram exactly when its stem is c1, c2 or c3
\* and its extension is mdx in lower case, that is, when the name is c1.mdx,
\* c2.mdx or c3.mdx; c1.puml and c1.dot are not admitted.
C21_StrictC123WantsTheExactName ==
    StrictAsked({"C1Diagram", "C2Diagram", "C3Diagram"}) =>
       resp.result.body = (/\ FileStem(resp.args.filename) = Some(StemOf(resp.args.document_type))
                           /\ Extension(resp.args.filename) = Some(<<"m","d","x">>))

\* The strict policy has refused c1.puml for C1Diagram.
C21_Witness ==
    /\ StrictAsked({"C1Diagram"})
    /\ resp.args.filename = <<"c","1",".","p","u","m","l">>
    /\ resp.result = Ok(FALSE)

\* C21 as stated: should_process_file admits a file name for C1Diagram,
\* C2Diagram or C3Diagram exactly when its stem is c1, c2 or c3, whatever
\* its extension.
C21_AsStated ==
    StrictAsked({"C1Diagram", "C2Diagram", "C3Diagram"}) =>
       resp.result.body = (FileStem(resp.args.filename) = Some(StemOf(resp.args.document_type)))

\* Whether the extension of filename is one of exts, letter case aside.
HasExtensionIn(filename, exts) ==
    /\ Extension(filename).some
    /\ ToAsciiLowercase(Extension(filename).v) \in exts

\* C22 (as found in the code): should_process_file admits a file name for
\* C4Diagram, ErdDiagram and AdrDocument exactly when its extension is mdx,
\* for OpenApiSpec exactly when it is yaml, for Agreements exactly when it
\* is md, mdx or txt, in any letter case each time; for GuideDoc never.
C22_StrictExtensionRules ==
    /\ StrictAsked({"C4Diagram", "ErdDiagram", "AdrDocument"})
          => resp.result.body = HasExtensionIn(resp.args.filename, {<<"m","d","x">>})
    /\ StrictAsked({"OpenApiSpec"})
          => resp.result.body = HasExtensionIn(resp.args.filename, {<<"y","a","m","l">>})
    /\ StrictAsked({"Agreements"})
          => resp.result.body = HasExtensionIn(resp.args.filename, {<<"m","d">>, <<"m","d","x">>, <<"t","x","t">>})
    /\ StrictAsked({"GuideDoc"}) => resp.result.body = FALSE

\* The strict policy has admitted api.YAML for OpenApiSpec.
C22_Witness ==
    /\ StrictAsked({"OpenApiSpec"})
    /\ resp.args.filename = <<"a","p","i",".","Y","A","M","L">>
    /\ resp.result = Ok(TRUE)

\* C22 as stated: as above, but OpenApiSpec admits the extension yaml alone,
\* in lower case.
C22_AsStated ==
    /\ StrictAsked({"C4Diagram", "ErdDiagram", "AdrDocument"})
          => resp.result.body = HasExtensionIn(resp.args.filename, {<<"m","d","x">>})
    /\ StrictAsked({"OpenApiSpec"})
          => resp.result.body = (Extension(resp.args.filename) = Some(<<"y","a","m","l">>))
    /\ StrictAsked({"Agreements"})
          => resp.result.body = HasExtensionIn(resp.args.filename, {<<"m","d">>, <<"m","d","x">>, <<"t","x","t">>})
    /\ StrictAsked({"GuideDoc"}) => resp.result.body = FALSE

-----------------------------------------------------------------------------
(* Classification alone: process_file or process_file_universal is given   *)
(* one file of the docs root, for one document type, into an empty index.  *)

ClassifyArgs(document_type, relative, scan_root, allowed_extensions) ==
    [document_type |-> document_type, path |-> <<"/","r","/">> \o relative, scan_root |-> scan_root,
     allowed_extensions |-> allowed_extensions]

\* Root-relative paths of every shape of process_file, and of none.
StructuralPaths ==
    {<<"c","o","n","t","e","n","t","/","d","o","c","s","/","b","a","c","k","e","n","d","/","r","e","a","d","m","e",".","m","d">>,
     <<"c","o","n","t","e","n","t","/","d","o","c","s","/","b","a","c","k","e","n","d","/","p","h","p","/","r","u","l","e","s",".","m","d">>,
     <<"c","o","n","t","e","n","t","/","d","o","c","s","/","b","a","c","k","e","n","d","/","p","h","p","/","a","p","i","/","r","u","l","e","s",".","m","d">>,
     <<"c","o","n","t","e","n","t","/","d","o","c","s","/","b","a","c","k","e","n","d","/","p","h","p","/","a","p","i","/","d","e","e","p","/","r","u","l","e","s",".","m","d">>,
     <<"c","o","n","t","e","n","t","/","d","o","c","s","/","x",".","m","d">>,
     <<"c","o","n","t","e","n","t","/","d","o","c","s","/","a","r","c","h","i","t","e","c","t","u","r","e","/","p","/","e","r","d","/","m","a","i","l",".","m","d","x">>,
     <<"c","o","n","t","e","n","t","/","d","o","c","s","/","a","r","c","h","i","t","e","c","t","u","r","e","/","p","/","e","r","d","/","s","e","r","v","i","c","e","s","/","m","a","i","l",".","m","d","x">>,
     <<"c","o","n","t","e","n","t","/","d","o","c","s","/","a","r","c","h","i","t","e","c","t","u","r","e","/","p","/","c","4","/","c","1",".","m","d","x">>,
     <<"c","o","n","t","e","n","t","/","d","o","c","s","/","a","r","c","h","i","t","e","c","t","u","r","e","/","p","/","c","4","/","p","a","y",".","m","d","x">>,
     <<"c","o","n","t","e","n","t","/","d","o","c","s","/","a","r","c","h","i","t","e","c","t","u","r","e","/","p","/","c","4","/","s","e","r","v","i","c","e","s","/","p","a","y",".","m","d","x">>,
     <<"c","o","n","t","e","n","t","/","d","o","c","s","/","a","r","c","h","i","t","e","c","t","u","r","e","/","p","/","a","d","r","/","0","0","1","-","x",".","m","d","x">>,
     <<"c","o","n","t","e","n","t","/","d","o","c","s","/","a","r","c","h","i","t","e","c","t","u","r","e","/","p","/","a","d","r","/","o","v","e","r","v","i","e","w",".","m","d","x">>,
     <<"c","o","n","t","e","n","t","/","d","o","c","s","/","a","r","c","h","i","t","e","c","t","u","r","e","/","p","/","a","d","r","/","-","x",".","m","d","x">>,
     <<"c","o","n","t","e","n","t","/","d","o","c","s","/","a","r","c","h","i","t","e","c","t","u","r","e","/","p","/","a","d","r","/","0","0","2",".","M","D","X">>,
     <<"c","o","n","t","e","n","t","/","d","o","c","s","/","a","r","c","h","i","t","e","c","t","u","r","e","/","p","/","a","d","r","/","0","0","3","-","a","-","b",".","m","d","x">>,
     <<"c","o","n","t","e","n","t","/","d","o","c","s","/","a","r","c","h","i","t","e","c","t","u","r","e","/","p","/","o","t","h","e","r","/","x",".","m","d","x">>,
     <<"c","o","n","t","e","n","t","/","d","o","c","s","/","a","r","c","h","i","t","e","c","t","u","r","e","/","p","/","x",".","m","d","x">>,
     <<"c","o","n","t","e","n","t","/","d","o","c","s","/","o","p","e","n","a","p","i","-","s","p","e","c","/","p","/","s","/","v","/","p","u","b","/","e","n","d","p","o","i","n","t","s","/","f",".","y","a","m","l">>,
     <<"c","o","n","t","e","n","t","/","d","o","c","s","/","o","p","e","n","a","p","i","-","s","p","e","c","/","p","/","s","/","v","/","p","u","b","/","f",".","y","a","m","l">>,
     <<"c","o","n","t","e","n","t","/","d","o","c","s","/","o","p","e","n","a","p","i","-","s","p","e","c","/","p","/","s","/","v","/","p","u","b","/","s","u","b","/","e","n","d","p","o","i","n","t","s","/","f",".","y","a","m","l">>,
     <<"c","o","n","t","e","n","t","/","d","o","c","s","/","o","p","e","n","a","p","i","-","s","p","e","c","/","p","/","s","/","v","/","p","u","b","/","s","u","b","/","f",".","y","a","m","l">>,
     <<"o","p","e","n","a","p","i","-","s","p","e","c","/","p","/","s","/","v","/","p","u","b","/","e","n","d","p","o","i","n","t","s","/","f",".","y","a","m","l">>,
     <<"o","p","e","n","a","p","i","-","s","p","e","c","/","p","/","s","/","v","/","p","u","b","/","f",".","y","a","m","l">>,
     <<"o","p","e","n","a","p","i","-","s","p","e","c","/","p","/","s","/","v","/","p","u","b","/","s","u","b","/","e","n","d","p","o","i","n","t","s","/","f",".","y","a","m","l">>,
     <<"o","p","e","n","a","p","i","-","s","p","e","c","/","p","/","s","/","v","/","p","u","b","/","s","u","b","/","f",".","y","a","m","l">>,
     <<"o","p","e","n","a","p","i","-","s","p","e","c","/","p","/","f",".","y","a","m","l">>,
     <<"a","r","c","h","/","c","4","/","c","1",".","m","d","x">>}

StructuralArgs ==
    {ClassifyArgs(document_type, relative, <<>>, <<>>) :
        document_type \in PolicyTypes, relative \in StructuralPaths}

\* ADR files below a universal scan target, with and without a hyphen, a
\* leading token and the extension mdx.
AdrArgs ==
    {ClassifyArgs(DocType("AdrDocument", <<"p">>), <<"a","r","c","h","/","a","d","r","/">> \o filename, <<"a","r","c","h","/","a","d","r">>,
                  <<<<"m","d","x">>, <<"m","d">>>>) :
        filename \in {<<"0","0","1","-","x",".","m","d","x">>, <<"0","0","1",".","m","d">>, <<"-","x",".","m","d","x">>, <<"o","v","e","r","v","i","e","w",".","m","d","x">>, <<"0","0","4","-","y",".","m","d">>}}

\* Scan roots of agreements: the vocabulary words alone, as last segment, in
\* the middle, in upper case, with slashes around; other last segments.
AgreementRoots ==
    {<<"c","o","n","t","e","n","t","/","d","o","c","s","/","b","a","c","k","e","n","d">>, <<"c","o","n","t","e","n","t","/","d","o","c","s","/","b","a","c","k","e","n","d","/">>, <<"c","o","n","t","e","n","t","/","d","o","c","s","/","f","r","o","n","t","e","n","d">>,
     <<"c","o","n","t","e","n","t","/","d","o","c","s","/","b","a","c","k","e","n","d","/","f","r","o","n","t","e","n","d">>, <<"c","o","n","t","e","n","t","/","d","o","c","s","/","q","u","a","l","i","t","y","-","a","s","s","u","r","a","n","c","e">>, <<"c","o","n","t","e","n","t","/","d","o","c","s">>,
     <<"s","h","a","r","e","d","/","r","u","l","e","s">>, <<"b","a","c","k","e","n","d">>, <<"c","o","n","t","e","n","t","/","d","o","c","s","/","B","a","c","k","e","n","d">>, <<"c","o","n","t","e","n","t","/","d","o","c","s","/","f","r","o","n","t","e","n","d","/","t","s">>}

\* Paths of agreements below their scan root.
AgreementSubpaths == {<<"r","u","l","e","s",".","m","d">>, <<"p","h","p","/","r","u","l","e","s",".","m","d">>, <<"p","h","p","/","a","p","i","/","r","u","l","e","s",".","m","d">>, <<"p","h","p","/","a","p","i","/","d","e","e","p","/","r","u","l","e","s",".","m","d">>}

AgreementArgs ==
    {ClassifyArgs(Agreements, Concat(<<TrimMatchesChar(root, "/"), s_slash, subpath>>), root,
                  <<<<"r","s","t">>>>) :
        root \in AgreementRoots, subpath \in AgreementSubpaths}
       \cup {ClassifyArgs(Agreements, <<"c","o","n","t","e","n","t","/","d","o","c","s","/","b","a","c","k","e","n","d","/","p","h","p","/","a","p","i","/","r","u","l","e","s",".","m","d">>,
                          <<"c","o","n","t","e","n","t","/","d","o","c","s","/","b","a","c","k","e","n","d","/","p","h","p","/","a","p","i","/","r","u","l","e","s",".","m","d">>, <<>>)}

InitClassify ==
    /\ config = None
    /\ calls = <<>>
    /\ ci = 1
    /\ ti = 1
    /\ stack = <<>>
    /\ resources = <<>>
    /\ log = <<>>
    /\ trace = <<>>
    /\ lastIns = <<>>
    /\ phase = "scan"
    /\ run = 1
    /\ firstIndex = <<>>
    /\ published = <<>>
    /\ sessions = [s \in SessionIds |-> None]
    /\ \E args \in StructuralArgs \cup AdrArgs \cup AgreementArgs :
          /\ fs = {Node(Components(args.path), "file", Wide(7))}
          /\ resp = [session |-> 0, op |-> "none", args |-> args, result |-> Ok(<<>>)]

\* The outcome of a classification is kept with the index it leaves.
Classify(op, outcome) ==
    /\ resp.op = "none"
    /\ resources' = outcome.resources
    /\ resp' = [resp EXCEPT !.op = op,
                            !.result = IF outcome.ok THEN Ok(outcome.entry)
                                       ELSE Err("scan", "process_file")]
    /\ UNCHANGED <<fs, config, calls, ci, ti, stack, log, trace, lastIns, phase, run,
                   firstIndex, published, sessions>>

ProcessFile ==
    Classify("process_file", process_file(resp.args.document_type, resp.args.path, resources))

ProcessFileUniversal ==
    Classify("process_file_universal",
             process_file_universal(resp.args.document_type, resp.args.path,
                                    resp.args.scan_root, resp.args.allowed_extensions,
                                    resources))

NextClassify ==
    \/ ProcessFile
    \/ ProcessFileUniversal

SpecClassify == InitClassify /\ [][NextClassify]_vars

\* The segments of the classified file's path below the docs root.
RelParts == Tail(Components(resp.args.path))

UnderContentDocs == Len(RelParts) >= 3 /\ RelParts[1] = <<"c","o","n","t","e","n","t">> /\ RelParts[2] = <<"d","o","c","s">>

\* C23: process_file skips every file at content/docs/{area}/... that lies
\* directly in the area directory or directly in a language directory (four
\* or five segments): it returns Ok and the index stays empty.
C23_FilesAboveTheCategoryLevelAreSkipped ==
    (resp.op = "process_file" /\ UnderContentDocs /\ Len(RelParts) \in {4, 5})
       => resp.result = Ok(None) /\ resources = <<>>

\* Whether segments p are content/docs/architecture/{project}/ followed by
\* the segments dirs and a file name.
IsArchitecturePath(p, dirs) ==
    /\ Len(p) = 5 + Len(dirs)
    /\ SubSeq(p, 1, 3) = <<<<"c","o","n","t","e","n","t">>, <<"d","o","c","s">>, <<"a","r","c","h","i","t","e","c","t","u","r","e">>>>
    /\ SubSeq(p, 5, Len(p) - 1) = dirs

\* Whether segments p are [content/docs/]openapi-spec/{project}/{service}/
\* {version}/{access_level}[/{sub_category}][/endpoints]/{filename}.
IsOpenApiPath(p) ==
    \E lead \in {<<>>, <<<<"c","o","n","t","e","n","t">>, <<"d","o","c","s">>>>} :
       /\ Len(p) - Len(lead) \in 6..8
       /\ SubSeq(p, 1, Len(lead) + 1) = lead \o <<<<"o","p","e","n","a","p","i","-","s","p","e","c">>>>
       /\ Len(p) - Len(lead) = 8 => p[Len(p) - 1] = <<"e","n","d","p","o","i","n","t","s">>

\* The URI and categories the specific shapes give a path, by the table of
\* shapes; fits is FALSE for a path of no specific shape.
SpecificShape(document_type, p) ==
    IF IsArchitecturePath(p, <<<<"c","4">>>>)
    THEN [fits |-> TRUE, prefix |-> Concat(<<<<"d","o","c","s",":","/","/","a","r","c","h","i","t","e","c","t","u","r","e","/">>, p[4], <<"/">>>>),
          area |-> <<"a","r","c","h","i","t","e","c","t","u","r","e">>,
          tag |-> IF IsC123(document_type) THEN StemOf(document_type) ELSE <<"c","4">>]
    ELSE IF IsArchitecturePath(p, <<<<"c","4">>, <<"s","e","r","v","i","c","e","s">>>>)
    THEN [fits |-> TRUE, prefix |-> Concat(<<<<"d","o","c","s",":","/","/","a","r","c","h","i","t","e","c","t","u","r","e","/">>, p[4], <<"/","c","4","/">>>>),
          area |-> <<"a","r","c","h","i","t","e","c","t","u","r","e">>, tag |-> <<"c","4">>]
    ELSE IF IsArchitecturePath(p, <<<<"e","r","d">>>>) \/ IsArchitecturePath(p, <<<<"e","r","d">>, <<"s","e","r","v","i","c","e","s">>>>)
    THEN [fits |-> TRUE, prefix |-> Concat(<<<<"d","o","c","s",":","/","/","a","r","c","h","i","t","e","c","t","u","r","e","/","e","r","d","/">>, p[4], <<"/">>>>),
          area |-> <<"a","r","c","h","i","t","e","c","t","u","r","e">>, tag |-> <<"e","r","d">>]
    ELSE IF IsArchitecturePath(p, <<<<"a","d","r">>>>)
    THEN [fits |-> TRUE, prefix |-> Concat(<<<<"d","o","c","s",":","/","/","a","r","c","h","i","t","e","c","t","u","r","e","/">>, p[4], <<"/","a","d","r","/">>>>),
          area |-> <<"a","r","c","h","i","t","e","c","t","u","r","e">>, tag |-> <<"a","d","r">>]
    ELSE IF IsOpenApiPath(p)
    THEN [fits |-> TRUE, prefix |-> <<"d","o","c","s",":","/","/","o","p","e","n","a","p","i","/">>, area |-> <<"o","p","e","n","a","p","i">>, tag |-> <<"o","p","e","n","a","p","i">>]
    ELSE [fits |-> FALSE]

\* Whether segments p have the generic shape or the shorter shape of a file
\* in an area of content/docs.
IsContentDocsPath(p) == Len(p) >= 3 /\ SubSeq(p, 1, 2) = <<<<"c","o","n","t","e","n","t">>, <<"d","o","c","s">>>>

\* C24: process_file classifies an admitted file whose path fits a specific
\* shape (c4, c4/services, erd, erd/services, adr, openapi) by that shape,
\* whether or not the generic shape fits as well: the URI starts with the
\* shape's prefix and ends with the file name, the area and the first
\* category are the shape's; an admitted file whose path fits no shape at
\* all is an error and leaves the index as it was.
C24_TheSpecificShapeDecides ==
    (/\ resp.op = "process_file"
     /\ should_process_file(resp.args.document_type, RelParts[Len(RelParts)]))
       => With(SpecificShape(resp.args.document_type, RelParts),
               LAMBDA shape :
                  /\ shape.fits
                        => /\ resp.result.kind = "ok"
                           /\ resp.result.body.some
                           /\ StartsWith(resp.result.body.v.uri, shape.prefix)
                           /\ EndsWith(resp.result.body.v.uri, <<"/">> \o RelParts[Len(RelParts)])
                           /\ resp.result.body.v.area = shape.area
                           /\ resp.result.body.v.category[1] = shape.tag
                           /\ IsArchitecturePath(RelParts, SubSeq(RelParts, 5, Len(RelParts) - 1))
                                 => /\ resp.result.body.v.uri
                                          = shape.prefix \o RelParts[Len(RelParts)]
                                    /\ resp.result.body.v.project = RelParts[4]
                           /\ resources = <<[key |-> resp.result.body.v.uri,
                                             value |-> resp.result.body.v]>>
                  /\ (~shape.fits /\ ~IsContentDocsPath(RelParts))
                        => resp.result.kind = "err" /\ resources = <<>>)

\* An ERD file under content/docs/architecture/p/erd, which the generic
\* shape fits as well, has been given the ERD URI.
C24_Witness ==
    /\ resp.op = "process_file"
    /\ resp.args.document_type.tag = "ErdDiagram"
    /\ RelParts = <<<<"c","o","n","t","e","n","t">>, <<"d","o","c","s">>, <<"a","r","c","h","i","t","e","c","t","u","r","e">>, <<"p">>, <<"e","r","d">>, <<"m","a","i","l",".","m","d","x">>>>
    /\ resp.result.kind = "ok"
    /\ resp.result.body.some
    /\ resp.result.body.v.uri = <<"d","o","c","s",":","/","/","a","r","c","h","i","t","e","c","t","u","r","e","/","e","r","d","/","p","/","m","a","i","l",".","m","d","x">>
    /\ resp.result.body.v.category = <<<<"e","r","d">>>>

\* The token of a file name's stem (the name without its extension) before
\* the first hyphen; None when there is no such token.
StemToken(filename) ==
    With(UnwrapOr(FileStem(filename), <<>>),
         LAMBDA stem :
    With(Positions(stem, "-"),
         LAMBDA hyphens :
    With(IF hyphens = {} THEN stem ELSE SubSeq(stem, 1, SetMin(hyphens) - 1),
         LAMBDA token : IF token = <<>> THEN None ELSE Some(token))))

\* C25: every ADR document that process_file or process_file_universal
\* indexes has the categories adr and ADR-n, n being the token of the file
\* name's stem before the first hyphen, or unknown when there is none.
C25_AdrCategoriesComeFromTheStem ==
    (/\ resp.op \in {"process_file", "process_file_universal"}
     /\ resp.args.document_type.tag = "AdrDocument"
     /\ resp.result.kind = "ok"
     /\ resp.result.body.some
     /\ resp.op = "process_file" => IsArchitecturePath(RelParts, <<<<"a","d","r">>>>))
       => resp.result.body.v.category
             = <<<<"a","d","r">>, <<"A","D","R","-">> \o UnwrapOr(StemToken(RelParts[Len(RelParts)]), <<"u","n","k","n","o","w","n">>)>>

\* The last non-empty segment of a scan root, in lower case.
TrailingComponent(scan_root) ==
    With(SelectSeq(Split(ToAsciiLowercase(scan_root), "/"), LAMBDA segment : segment # <<>>),
         LAMBDA segments : IF segments = <<>> THEN <<>> ELSE segments[Len(segments)])

\* The area the trailing component of a scan root stands for: itself,
\* except that docs stands for none.
AreaOfTrailingComponent(scan_root) ==
    IF TrailingComponent(scan_root) = <<"d","o","c","s">> THEN <<>> ELSE TrailingComponent(scan_root)

\* The area field of an agreements entry for an inferred area.
AreaField(area) == IF area = <<>> THEN <<"a","g","r","e","e","m","e","n","t","s">> ELSE area

AgreementIndexed ==
    /\ resp.op = "process_file_universal"
    /\ resp.args.document_type.tag = "Agreements"
    /\ resp.result.kind = "ok"
    /\ resp.result.body.some

\* C26: the area of an agreements file indexed by process_file_universal is
\* decided by the trailing component of the scan root alone: backend,
\* frontend or quality-assurance when the component is that word, the
\* component itself otherwise, and none (shown as agreements) when it is
\* docs.
C26_AreaComesFromTheTrailingComponent ==
    AgreementIndexed
       => resp.result.body.v.area = AreaField(AreaOfTrailingComponent(resp.args.scan_root))

\* The segments of the classified file's path below its scan root; the file
\* name alone when the scan root is the file.
SubpathSegments ==
    With(Len(Components(resp.args.scan_root)),
         LAMBDA n : IF n >= Len(RelParts) THEN <<RelParts[Len(RelParts)]>>
                    ELSE SubSeq(RelParts, n + 1, Len(RelParts)))

\* C27: an agreements file indexed by process_file_universal whose inferred
\* area is backend or frontend and whose subpath under the scan root has at
\* least two segments has the first segment as its language and agreements
\* followed by the segments between the first and the file name as its
\* categories; any other has no language and agreements followed by all
\* segments before the file name.
C27_LanguageAndCategoriesFromTheSubpath ==
    AgreementIndexed
       => With(SubpathSegments,
               LAMBDA segments :
                  IF resp.result.body.v.area \in {<<"b","a","c","k","e","n","d">>, <<"f","r","o","n","t","e","n","d">>} /\ Len(segments) >= 2
                  THEN /\ resp.result.body.v.lang = segments[1]
                       /\ resp.result.body.v.category
                             = <<<<"a","g","r","e","e","m","e","n","t","s">>>> \o SubSeq(segments, 2, Len(segments) - 1)
                  ELSE /\ resp.result.body.v.lang = <<>>
                       /\ resp.result.body.v.category
                             = <<<<"a","g","r","e","e","m","e","n","t","s">>>> \o SubSeq(segments, 1, Len(segments) - 1))

\* The segments [content, docs] when p begins with them, none otherwise.
LeadOf(p) ==
    IF Len(p) >= 2 /\ SubSeq(p, 1, 2) = <<<<"c","o","n","t","e","n","t">>, <<"d","o","c","s">>>> THEN <<<<"c","o","n","t","e","n","t">>, <<"d","o","c","s">>>>
    ELSE <<>>

\* Whether segments p are [content/docs/]openapi-spec/{project}/{service}/
\* {version}/{access_level}[/{sub_category}]/endpoints/{filename}.
IsEndpointsPath(p) ==
    /\ Len(p) - Len(LeadOf(p)) \in {7, 8}
    /\ p[Len(LeadOf(p)) + 1] = <<"o","p","e","n","a","p","i","-","s","p","e","c">>
    /\ p[Len(p) - 1] = <<"e","n","d","p","o","i","n","t","s">>

\* The segments {project}/{service}/{version}/{access_level}[/{sub_category}]
\* of an endpoints path.
EndpointsFields(p) == SubSeq(p, Len(LeadOf(p)) + 2, Len(p) - 2)

\* The same path without its endpoints directory.
WithoutEndpoints(p) == SubSeq(p, 1, Len(p) - 2) \o <<p[Len(p)]>>

FilesBelow(target) ==
    With(Resolve(PathJoin(DocsRoot, target)),
         LAMBDA c : IF ~c.some THEN {}
                    ELSE {n \in fs : n.kind = "file" /\ IsSeqPrefix(c.v, n.path)})

\* Whether the allow-list policy of the call admits the file n.
CallAdmits(call, n) ==
    should_process_file_with_extensions(call.document_type, n.path[Len(n.path)], CallExts(call))

\* C28: when a universal scan of a target has ended without error, the
\* entries it inserted are those of the regular files at or below the target,
\* at every depth, that the allow-list policy admits, for every document
\* type; a target that is a regular file is classified when the target is
\* started, with no directory left to list.
C28_UniversalScanReachesEveryDepth ==
    \A i \in DOMAIN trace :
       With(calls[trace[i].ci],
            LAMBDA call :
       With(calls[trace[i].ci].targets[trace[i].ti],
            LAMBDA target :
               IsUniversal(call)
                  => /\ trace[i].status = "ok"
                        => /\ \A n \in FilesBelow(target) :
                                 CallAdmits(call, n)
                                    => With(Classified(call, target, n),
                                            LAMBDA e :
                                               /\ e.kind = "entry"
                                               /\ e.info.uri \in DOMAIN trace[i].ins
                                               /\ trace[i].ins[e.info.uri] = e.info)
                           /\ \A u \in DOMAIN trace[i].ins :
                                 \E n \in FilesBelow(target) :
                                    /\ CallAdmits(call, n)
                                    /\ Classified(call, target, n).info = trace[i].ins[u]
                     /\ PathIsFile(PathJoin(DocsRoot, target))
                           => /\ trace[i].status # "running"
                              /\ i = Len(trace) => stack = <<>>))

\* A universal C1 scan has ended on a directory, where it indexed a file of a
\* subdirectory together with the file at top level, and on a target that is
\* a regular file, which it indexed.
C28_Witness ==
    /\ \E i \in DOMAIN trace :
          /\ IsUniversal(calls[trace[i].ci])
          /\ calls[trace[i].ci].document_type.tag = "C1Diagram"
          /\ calls[trace[i].ci].targets[trace[i].ti] = <<"a","r","c","h","/","c","4">>
          /\ trace[i].status = "ok"
          /\ Cardinality(DOMAIN trace[i].ins) = 2
          /\ \E u \in DOMAIN trace[i].ins : trace[i].ins[u].file_path = <<"a","r","c","h","/","c","4","/","s","u","b","/","c","1",".","p","u","m","l">>
          /\ \E u \in DOMAIN trace[i].ins : trace[i].ins[u].file_path = <<"a","r","c","h","/","c","4","/","c","1",".","p","u","m","l">>
    /\ \E i \in DOMAIN trace :
          /\ IsUniversal(calls[trace[i].ci])
          /\ calls[trace[i].ci].targets[trace[i].ti] = <<"a","r","c","h","/","c","4","/","c","1",".","p","u","m","l">>
          /\ trace[i].status = "ok"
          /\ Cardinality(DOMAIN trace[i].ins) = 1

\* (page - 1) * limit, computed without a width, is beyond the number of
\* admitted documents: the slice of the page starts past its end.
ListStartsPastEnd ==
    WideCmp(WideMulSmall(WideDec(ListPage), ToNat(ListLimit)).v, Wide(Len(Admitted(resp.args)))) = 1

\* C30: for every page from 1 to 2^32 - 1 and limit in [1,200], get_docs_list
\* answers as the arithmetic without a width would have it: it does not trap
\* on an overflow, a page that starts past the end of the list ends as every
\* such page does, and any other page returns the slice and the page count
\* of the exact start index.
C30_PageArithmeticIsExact ==
    ListValid =>
        /\ resp.result # Panic("arithmetic overflow")
        /\ IF ListStartsPastEnd
           THEN resp.result = Panic("slice index starts past its end")
           ELSE /\ resp.result.kind = "ok"
                /\ resp.result.body.documents = ListSlice
                /\ resp.result.body.total_pages =
                      Wide((Len(Admitted(resp.args)) + ToNat(ListLimit) - 1)
                              \div ToNat(ListLimit))

====
